---- MODULE Spec2Model ----
(***************************************************************************)
(* melon-fire: the pull/push revision engine of src/index.ts (lines 1-724) *)
(* over a Firestore-like document store.                                    *)
(*                                                                          *)
(* The remote store is the root document (melonLatestRevision,              *)
(* melonBatchTokens), the table documents under the root and under each     *)
(* side-batch handle, the side-batch documents and the melonDeletes         *)
(* records.  Every await of pushChanges is one action of a client; a        *)
(* Firestore transaction and a write-batch commit are atomic (the store's   *)
(* contract).  pullChanges is an operator over the store.                   *)
(***************************************************************************)
EXTENDS Integers, Sequences, FiniteSets, TLC

\* ------------------------------------------------------------------ bounds
\* MAX_TRANSACTION_WRITES is 500 in src/index.ts:86; the model is scaled.
MAX_TRANSACTION_WRITES == 3
\* number of pushChanges calls of a behaviour
MaxPushes == 3
\* number of pullChanges calls of the reader
MaxPulls == 2
\* number of pushChanges calls of the writer that runs beside the reader
MaxPulledPushes == 2
\* number of syncMelonFire calls of a device
MaxSyncs == 2

\* --------------------------------------------------------- program constants
MIN_REVISION == 1

Clients == {1, 2}
TableSeq == <<"entries">>
Tables == {TableSeq[i] : i \in 1..Len(TableSeq)}
\* logical row ids, in the order the adapter lists them; one is not key-safe
IdSeq == <<"a", "x/y">>
Ids == {IdSeq[i] : i \in 1..Len(IdSeq)}
\* the same and an id with a percent sign, which reads as the encoding of x/y
AllIdSeq == IdSeq \o <<"x%2Fy">>
AllIds == {AllIdSeq[i] : i \in 1..Len(AllIdSeq)}
\* row payloads: the code never looks at them, so every call sends its own,
\* the ordinal of the call, and a stored row shows which call wrote it
Data == 1..MaxPushes
Revisions == 1..MaxPushes
\* auto-ids of side-batch documents: the ordinal of the push that allocates it
Tokens == 1..MaxPushes
\* where table documents live: 0 is the root (baseDoc), t > 0 the side-batch t
BASE == 0
Locs == {BASE} \cup Tokens

NoDoc == [none |-> TRUE]
NoToken == 0

\* ------------------------------------------------------------------ id codec
\* encodeURIComponent / decodeURIComponent on the strings of the model
encodeURIComponent(s) ==
  CASE s = "a" -> "a"
    [] s = "x/y" -> "x%2Fy"
    [] s = "x%2Fy" -> "x%252Fy"
    [] OTHER -> s

decodeURIComponent(s) ==
  CASE s = "x%2Fy" -> "x/y"
    [] s = "x%252Fy" -> "x%2Fy"
    [] OTHER -> s

\* document keys of the table collections, in key order
KeySeq == [i \in 1..Len(AllIdSeq) |-> encodeURIComponent(AllIdSeq[i])]
Keys == {KeySeq[i] : i \in 1..Len(KeySeq)}

\* ------------------------------------------------------------------- helpers
RECURSIVE SumSeq(_)
SumSeq(s) == IF s = <<>> THEN 0 ELSE Head(s) + SumSeq(Tail(s))

RECURSIVE FlattenSeq(_)
FlattenSeq(ss) == IF ss = <<>> THEN <<>> ELSE Head(ss) \o FlattenSeq(Tail(ss))

Min(a, b) == IF a < b THEN a ELSE b

\* Array.prototype.slice(from, to) with 0-based, end-exclusive indices
Slice(s, from, to) ==
  LET lo == Min(from, Len(s))
      hi == Min(to, Len(s))
  IN  IF hi <= lo THEN <<>> ELSE SubSeq(s, lo + 1, hi)

\* ---------------------------------------------------------------- variables
VARIABLES
  base,      \* root document: [melonLatestRevision, melonBatchTokens]
  docs,      \* table documents: [Locs -> [Tables -> [Keys -> stored doc or NoDoc]]]
  batchDocs, \* side-batch documents: [Tokens -> NoDoc or MelonBatchDoc]
  delRecs,   \* sequence of the melonDeletes documents, in creation order
  cl,        \* per client: the position and locals of its pushChanges call
  nPush,     \* number of pushChanges calls made so far
  commits,   \* history: per lastPulledAt, how many calls made with it committed
  overlap,   \* history: some pushChanges call began while another was running
  images,    \* history: the changes a pull from null returned after each commit
  latest,    \* history: the most recent committed event of every row id
  pl,        \* the position and locals of the pullChanges call of a reader
  sy,        \* the position and locals of a syncMelonFire call
  bw         \* a BatchWriter and the write-batch handles it has opened

vars == <<base, docs, batchDocs, delRecs, cl, nPush, commits, overlap, images, latest,
          pl, sy, bw>>
store == <<base, docs, batchDocs, delRecs>>

EmptyTables == [t \in Tables |-> [k \in Keys |-> NoDoc]]
EmptyChanges == [t \in Tables |-> [created |-> <<>>, updated |-> <<>>, deleted |-> <<>>]]
NoTokens == [r \in Revisions |-> NoToken]
NoRefs == [t \in Tables |-> <<>>]

IdleClient ==
  [pc |-> "idle", lastPulledAt |-> 0, changes |-> EmptyChanges,
   no |-> 0, delRefs |-> NoRefs, ti |-> 1, revision |-> 0, batchTokens |-> NoTokens,
   batchDoc |-> NoToken, calls |-> <<>>, queue |-> <<>>, count |-> 0,
   deletes |-> NoRefs, path |-> "none", result |-> "none"]

\* no pullChanges call has returned yet
NoResult == [none |-> TRUE]

\* the reader before its first pullChanges call.  n0, q0, before and prev are
\* history: the number of pushChanges calls made and whether none was running
\* when the call began, what a pull would have returned at that moment, and
\* the same of the call before this one
IdlePull ==
  [pc |-> "idle", lastPulledAt |-> 0, endRevision |-> 0, batchTokens |-> NoTokens,
   start |-> 0, end |-> 0, w |-> [threw |-> FALSE, map |-> <<>>],
   result |-> NoResult, n |-> 0,
   n0 |-> 0, q0 |-> FALSE, before |-> NoResult,
   prev |-> [lastPulledAt |-> 0, result |-> NoResult, q0 |-> FALSE]]

\* no syncMelonFire call has been made yet: the local database has never
\* pulled (lastPulledAt = null is MIN_REVISION - 1).  attempt counts the
\* sync() calls of the current syncMelonFire call, thrown is the history of
\* the errors they threw
IdleSync ==
  [pc |-> "idle", n |-> 0, attempt |-> 0, lastPulledAt |-> MIN_REVISION - 1,
   thrown |-> <<>>, result |-> "none"]

\* a write batch of firestore().batch(): the operations queued on it and
\* whether commit() has been called on it and has completed
NewBatch == [ops |-> <<>>, state |-> "open"]

\* a BatchWriter after its constructor (lines 618-623).  batch is the index
\* in handles of this.batch; pending is the handle whose commit was started
\* without being awaited (0: none).  nOps, calls, deletedCalls, flushes,
\* error and unhandled are history: the operations and calls requested so
\* far, the error a call threw and the rejections nothing awaited.
NewWriter ==
  [pc |-> "ready", batch |-> 1, count |-> 0, handles |-> <<NewBatch>>,
   pending |-> 0, nOps |-> 0, calls |-> 0, deletedCalls |-> 0, flushes |-> 0,
   error |-> "none", unhandled |-> 0]

Init ==
  /\ pl = IdlePull
  /\ sy = IdleSync
  /\ bw = NewWriter
  /\ base = [melonLatestRevision |-> 0, melonBatchTokens |-> NoTokens]
  /\ docs = [l \in Locs |-> EmptyTables]
  /\ batchDocs = [k \in Tokens |-> NoDoc]
  /\ delRecs = <<>>
  /\ cl = [c \in Clients |-> IdleClient]
  /\ nPush = 0
  /\ commits = [r \in Revisions |-> 0]
  /\ overlap = FALSE
  /\ images = {[t \in Tables |-> [created |-> {}, updated |-> {}, deleted |-> {}]]}
  /\ latest = [t \in Tables |-> [i \in Ids |-> [kind |-> "none", data |-> 0]]]

\* ------------------------------------------------------- revision metadata
\* a next revision that is the latest revision itself
revisionFromBaseSnap_latest(snap) ==
  <<IF snap.melonLatestRevision # 0
      THEN snap.melonLatestRevision
      ELSE MIN_REVISION,
    snap.melonBatchTokens>>

\* revisionFromBaseSnap: [next revision to write, batch tokens]
revisionFromBaseSnap(snap) ==
  <<IF snap.melonLatestRevision # 0
      THEN snap.melonLatestRevision + 1
      ELSE MIN_REVISION,
    snap.melonBatchTokens>>

\* ------------------------------------------------------------ record shapes
\* a raw row of the adapter carries the Watermelon internals
RawRow(id, d) == [id |-> id, data |-> d, _status |-> "synced", _changed |-> ""]

\* a removeWatermelonInternals that removes nothing
removeWatermelonInternals_kept(obj) == obj

removeWatermelonInternals(obj) ==
  [f \in (DOMAIN obj) \ {"_status", "_changed"} |-> obj[f]]

removeMelonFields(record) ==
  [f \in (DOMAIN record) \ {"melonFireChange", "melonFireRevision"} |-> record[f]]

\* ------------------------------------------------------------- pull merger
\* strings that can key a ChangeLoadMap
IdUniverse == AllIds \cup {decodeURIComponent(AllIdSeq[i]) : i \in 1..Len(AllIdSeq)}
NoRow == [none |-> TRUE]
\* lastPulledAt = null
Null == MIN_REVISION - 1

EmptyChangeMap ==
  [t \in Tables |-> [updated |-> [i \in IdUniverse |-> NoRow], deleted |-> {}]]

HasToken(batchTokens, r) == r \in DOMAIN batchTokens /\ batchTokens[r] # NoToken

\* the query of mergeCreatesAndUpdates: the documents of one table collection
\* with startRevision <= melonFireRevision < endRevision, ordered by
\* melonFireRevision (then by key)
QueryByRevision(tbl, startRevision, endRevision) ==
  FlattenSeq(
    [i \in 1..(endRevision - startRevision) |->
      LET ks == SelectSeq(KeySeq, LAMBDA k :
                  /\ tbl[k] # NoDoc
                  /\ tbl[k].melonFireRevision = startRevision + i - 1)
      IN  [j \in 1..Len(ks) |-> tbl[ks[j]]]])

\* a merge that keeps the row it has and drops the later one
RECURSIVE MergeRows_keepFirst(_, _)
MergeRows_keepFirst(updated, rows) ==
  IF rows = <<>> THEN updated
  ELSE LET rec == removeMelonFields(removeWatermelonInternals(Head(rows)))
       IN  MergeRows_keepFirst(
             IF updated[decodeURIComponent(rec.id)] = NoRow
               THEN [updated EXCEPT ![decodeURIComponent(rec.id)] = rec]
               ELSE updated,
             Tail(rows))

\* the forEach of lines 246-254: a later row of an id replaces an earlier one
RECURSIVE MergeRows(_, _)
MergeRows(updated, rows) ==
  IF rows = <<>> THEN updated
  ELSE LET rec == removeMelonFields(removeWatermelonInternals(Head(rows)))
       IN  MergeRows([updated EXCEPT ![decodeURIComponent(rec.id)] = rec],
                     Tail(rows))

\* mergeCreatesAndUpdates(root, startRevision, endRevision, tables, changeMap);
\* rootTables are the table collections under root
mergeCreatesAndUpdates(rootTables, startRevision, endRevision, tables, changeMap) ==
  [t \in Tables |->
    IF t \in tables
      THEN [changeMap[t] EXCEPT !.updated =
              MergeRows(@, QueryByRevision(rootTables[t], startRevision, endRevision))]
      ELSE changeMap[t]]

\* deletions that keep the encoded ids
AddDeletes_encoded(changeMap, deletes) ==
  [t \in Tables |->
    [changeMap[t] EXCEPT !.deleted =
       @ \cup {deletes[t][i] : i \in 1..Len(deletes[t])}]]

\* marks the ids of a TableDeletes map deleted (lines 183-187 and 200-204)
AddDeletes(changeMap, deletes) ==
  [t \in Tables |->
    [changeMap[t] EXCEPT !.deleted =
       @ \cup {decodeURIComponent(deletes[t][i]) : i \in 1..Len(deletes[t])}]]

RECURSIVE AddDeleteRecords(_, _)
AddDeleteRecords(changeMap, records) ==
  IF records = <<>> THEN changeMap
  ELSE AddDeleteRecords(AddDeletes(changeMap, Head(records).deletes), Tail(records))

\* an inner while that runs one revision past endRevision
RECURSIVE RunEnd_past(_, _, _)
RunEnd_past(end, endRevision, batchTokens) ==
  IF ~HasToken(batchTokens, end) /\ end <= endRevision
    THEN RunEnd_past(end + 1, endRevision, batchTokens)
    ELSE end

\* the inner while of the walk: the first end >= start that has a batch token
\* or reaches endRevision
RECURSIVE RunEnd(_, _, _)
RunEnd(end, endRevision, batchTokens) ==
  IF ~HasToken(batchTokens, end) /\ end < endRevision
    THEN RunEnd(end + 1, endRevision, batchTokens)
    ELSE end

\* the while loop of pullChanges (lines 167-208) on the walk state
\* w = [threw, map]; a missing side-batch document makes rootSnap.data()
\* undefined and the pull throws
RECURSIVE PullWalk(_, _, _, _, _, _, _, _)
PullWalk(b, d, bd, dr, tables, start, endRevision, w) ==
  IF w.threw \/ ~(start < endRevision) THEN w
  ELSE
    LET batchTokens == b.melonBatchTokens
        end == RunEnd(start, endRevision, batchTokens)
    IN  IF end = start
          THEN LET token == batchTokens[end]
                   rootDoc == bd[token]
               IN  IF rootDoc = NoDoc
                     THEN [w EXCEPT !.threw = TRUE]
                     ELSE PullWalk(b, d, bd, dr, tables, end + 1, endRevision,
                            [w EXCEPT !.map =
                               AddDeletes(
                                 mergeCreatesAndUpdates(d[token], start, end + 1,
                                                        tables, w.map),
                                 rootDoc.deletes)])
          ELSE LET records == SelectSeq(dr, LAMBDA rec :
                                rec.revision >= start /\ rec.revision < end)
               IN  PullWalk(b, d, bd, dr, tables, end, endRevision,
                     [w EXCEPT !.map =
                        AddDeleteRecords(
                          mergeCreatesAndUpdates(d[BASE], start, end, tables, w.map),
                          records)])

\* a pull that ignores lastPulledAt
StartRevision_fromStart(lastPulledAt) == MIN_REVISION

\* a walk that resumes where the call before it stopped
StartRevision_resumed(lastPulledAt) ==
  IF pl.n > 1 THEN pl.endRevision
  ELSE IF lastPulledAt = Null THEN MIN_REVISION ELSE lastPulledAt

\* startRevision (line 145)
StartRevision(lastPulledAt) ==
  IF lastPulledAt = Null THEN MIN_REVISION ELSE lastPulledAt

\* pullChanges up to the end of the walk (lines 144-208): [threw, map], map
\* the ChangeLoadMap
PullMap(b, d, bd, dr, tables, lastPulledAt) ==
  LET startRevision == StartRevision(lastPulledAt)
      endRevision == revisionFromBaseSnap(b)[1]
  IN  PullWalk(b, d, bd, dr, tables, startRevision, endRevision,
               [threw |-> FALSE, map |-> EmptyChangeMap])

\* a pull that returns the deleted rows too
NotDeleted_unfiltered(row, deleted) == TRUE

\* the filter of lines 215-217
NotDeleted(row, deleted) == row.id \notin deleted

\* a result stamped with the last revision written, not the one after it
PullResult_inclusive(w, tables, endRevision) ==
  LET changeMap == w.map
  IN  IF w.threw THEN [threw |-> TRUE]
      ELSE [threw |-> FALSE,
            changes |->
              [t \in tables |->
                [created |-> {},
                 updated |-> {changeMap[t].updated[i] : i \in
                                {j \in IdUniverse :
                                   /\ changeMap[t].updated[j] # NoRow
                                   /\ NotDeleted(changeMap[t].updated[j],
                                                 changeMap[t].deleted)}},
                 deleted |-> changeMap[t].deleted]],
            timestamp |-> endRevision - 1]

\* the SyncPullResult built from the walk state (lines 210-225), or the
\* error the walk threw
PullResult(w, tables, endRevision) ==
  LET changeMap == w.map
  IN  IF w.threw THEN [threw |-> TRUE]
      ELSE [threw |-> FALSE,
            changes |->
              [t \in tables |->
                [created |-> {},
                 updated |-> {changeMap[t].updated[i] : i \in
                                {j \in IdUniverse :
                                   /\ changeMap[t].updated[j] # NoRow
                                   /\ NotDeleted(changeMap[t].updated[j],
                                                 changeMap[t].deleted)}},
                 deleted |-> changeMap[t].deleted]],
            timestamp |-> endRevision]

\* pullChanges(tables, baseDoc, {lastPulledAt}) on the store <<b, d, bd, dr>>;
\* updated and deleted are returned as sets
pullChanges(b, d, bd, dr, tables, lastPulledAt) ==
  LET endRevision == revisionFromBaseSnap(b)[1]
      w == PullMap(b, d, bd, dr, tables, lastPulledAt)
  IN  PullResult(w, tables, endRevision)

PullNow(lastPulledAt) == pullChanges(base, docs, batchDocs, delRecs, Tables, lastPulledAt)

\* ------------------------------------------------------------ the changesets
\* what a changeset does to one row id
Events == {"none", "created", "updated", "deleted"}

\* SyncDatabaseChangeSet of the per-id events ev with payload d: an id is in
\* at most one list
ChangesOf(ev, d) ==
  [t \in Tables |->
    LET ids(o) == SelectSeq(AllIdSeq, LAMBDA i : i \in DOMAIN ev[t] /\ ev[t][i] = o)
        rows(o) == [j \in 1..Len(ids(o)) |-> RawRow(ids(o)[j], d)]
    IN  [created |-> rows("created"), updated |-> rows("updated"),
         deleted |-> ids("deleted")]]

\* ------------------------------------------------------------- the store ops
Ref(loc, table, key) == [loc |-> loc, table |-> table, key |-> key]
SetOp(ref, data) == [kind |-> "set", ref |-> ref, data |-> data]
DeleteOp(ref) == [kind |-> "delete", ref |-> ref, data |-> NoDoc]

\* the atomic commit of the queued operations of a transaction or write batch
RECURSIVE ApplyOps(_, _)
ApplyOps(d, ops) ==
  IF ops = <<>> THEN d
  ELSE LET op == Head(ops)
       IN  ApplyOps([d EXCEPT ![op.ref.loc][op.ref.table][op.ref.key] = op.data],
                    Tail(ops))

\* the record of a raw row as it is stored at a revision
StoredRecord(raw, revision) ==
  LET rec == removeWatermelonInternals(raw)
  IN  [f \in (DOMAIN rec) \cup {"melonFireRevision"} |->
        IF f = "melonFireRevision" THEN revision ELSE rec[f]]

\* ------------------------------------------------------------ push planner
\* a count that takes the ids of the deleted lists for the deletes
countChanges_byIds(changes, deleteCount) ==
  LET ids == SumSeq([i \in 1..Len(TableSeq) |-> Len(changes[TableSeq[i]].deleted)])
  IN  SumSeq([i \in 1..Len(TableSeq) |->
               Len(changes[TableSeq[i]].created) + Len(changes[TableSeq[i]].updated)])
        + (IF ids > 0 THEN ids + 1 ELSE 0)

\* a count that leaves out the delete-record document
countChanges_noRecord(changes, deleteCount) ==
  SumSeq([i \in 1..Len(TableSeq) |->
           Len(changes[TableSeq[i]].created) + Len(changes[TableSeq[i]].updated)])
    + deleteCount

\* a count that adds the deletes only from the second one on
countChanges_fromTwo(changes, deleteCount) ==
  SumSeq([i \in 1..Len(TableSeq) |->
           Len(changes[TableSeq[i]].created) + Len(changes[TableSeq[i]].updated)])
    + (IF deleteCount > 1 THEN deleteCount + 1 ELSE 0)

\* countChanges(changes, deleteCount), lines 584-601
countChanges(changes, deleteCount) ==
  SumSeq([i \in 1..Len(TableSeq) |->
           Len(changes[TableSeq[i]].created) + Len(changes[TableSeq[i]].updated)])
    + (IF deleteCount > 0 THEN deleteCount + 1 ELSE 0)

\* findDeleteRefs, lines 313-326: the root copies of the deleted ids of a table
BaseDeleteRefs(d, table, deletedIds) ==
  LET baseExists == SelectSeq(deletedIds, LAMBDA id :
                      d[BASE][table][encodeURIComponent(id)] # NoDoc)
  IN  [j \in 1..Len(baseExists) |->
        LET key == encodeURIComponent(baseExists[j])
        IN  [ref |-> Ref(BASE, table, key),
             id |-> encodeURIComponent(d[BASE][table][key].id)]]

\* findDeleteRefs, lines 331-352: for every deleted id, its copy in every
\* existing side-batch document
BatchDeleteRefs(d, bd, table, deletedIds) ==
  LET batchSnaps == SelectSeq([k \in 1..MaxPushes |-> k], LAMBDA k : bd[k] # NoDoc)
      all == FlattenSeq(
               [i \in 1..Len(deletedIds) |->
                 [j \in 1..Len(batchSnaps) |->
                   Ref(batchSnaps[j], table, encodeURIComponent(deletedIds[i]))]])
      delInBatchExists == SelectSeq(all, LAMBDA r : d[r.loc][r.table][r.key] # NoDoc)
  IN  [j \in 1..Len(delInBatchExists) |->
        LET r == delInBatchExists[j]
        IN  [ref |-> r, id |-> encodeURIComponent(d[r.loc][r.table][r.key].id)]]

\* "table in delRefs": a table gets an entry only when a reference was found
InDelRefs(delRefs, table) == delRefs[table] # <<>>

\* TableDeletes of the discovered references: their encoded ids
RefIds(refs) == [j \in 1..Len(refs) |-> refs[j].id]
RefRefs(refs) == [j \in 1..Len(refs) |-> refs[j].ref]

\* a finished call keeps what the caller knows of it
Finish(c, res) ==
  [IdleClient EXCEPT !.batchDoc = cl[c].batchDoc,
                     !.path = cl[c].path,
                     !.result = res]

Running(c) == cl[c].pc # "idle"

\* the timestamps a pull can have returned to the caller by now
PulledTimestamps == MIN_REVISION..revisionFromBaseSnap(base)[1]

\* pushChanges(baseDoc, {lastPulledAt, changes}) is called
PushChanges(c) ==
  /\ cl[c].pc = "idle"
  /\ nPush < MaxPushes
  /\ \E lastPulledAt \in PulledTimestamps, ev \in [Tables -> [Ids -> Events]] :
       cl' = [cl EXCEPT ![c] =
                [IdleClient EXCEPT !.pc = "findBase",
                                   !.no = nPush + 1,
                                   !.lastPulledAt = lastPulledAt,
                                   !.changes = ChangesOf(ev, nPush + 1)]]
  /\ nPush' = nPush + 1
  /\ overlap' = (overlap \/ \E o \in Clients \ {c} : Running(o))
  /\ UNCHANGED <<store, commits, images, latest>>
  /\ UNCHANGED <<pl, sy, bw>>

\* pushChanges is called by a caller that has just pulled: lastPulledAt is
\* the timestamp of that pull.  sendCreatedAsUpdated (line 117) makes a
\* created row and an updated row the same to the store.
PushPulled(c) ==
  /\ cl[c].pc = "idle"
  /\ nPush < MaxPulledPushes
  /\ \E ev \in [Tables -> [Ids -> Events \ {"created"}]] :
       cl' = [cl EXCEPT ![c] =
                [IdleClient EXCEPT !.pc = "findBase",
                                   !.no = nPush + 1,
                                   !.lastPulledAt = revisionFromBaseSnap(base)[1],
                                   !.changes = ChangesOf(ev, nPush + 1)]]
  /\ nPush' = nPush + 1
  /\ overlap' = (overlap \/ \E o \in Clients \ {c} : Running(o))
  /\ UNCHANGED <<store, commits, images, latest>>
  /\ UNCHANGED <<pl, sy, bw>>

\* pushChanges is called by a caller that has just pulled, with rows of any id
PushAnyId(c) ==
  /\ cl[c].pc = "idle"
  /\ nPush < MaxPulledPushes
  /\ \E ev \in [Tables -> [AllIds -> Events \ {"created"}]] :
       cl' = [cl EXCEPT ![c] =
                [IdleClient EXCEPT !.pc = "findBase",
                                   !.no = nPush + 1,
                                   !.lastPulledAt = revisionFromBaseSnap(base)[1],
                                   !.changes = ChangesOf(ev, nPush + 1)]]
  /\ nPush' = nPush + 1
  /\ overlap' = (overlap \/ \E o \in Clients \ {c} : Running(o))
  /\ UNCHANGED <<store, commits, images, latest>>
  /\ UNCHANGED <<pl, sy, bw>>

\* findDeleteRefs, the reads of the root copies of one table
FindBaseRefs(c) ==
  /\ cl[c].pc = "findBase"
  /\ LET table == TableSeq[cl[c].ti]
     IN  cl' = [cl EXCEPT ![c].delRefs[table] =
                   BaseDeleteRefs(docs, table, cl[c].changes[table].deleted),
                 ![c].pc = "findBatch"]
  /\ UNCHANGED <<store, nPush, commits, overlap, images, latest>>
  /\ UNCHANGED <<pl, sy, bw>>

\* findDeleteRefs, the reads of the side-batch copies of one table; after the
\* last table pushChanges (lines 291-300) picks the path
FindBatchRefs(c) ==
  /\ cl[c].pc = "findBatch"
  /\ LET table == TableSeq[cl[c].ti]
         delRefs == [cl[c].delRefs EXCEPT ![table] =
                       @ \o BatchDeleteRefs(docs, batchDocs, table,
                                            cl[c].changes[table].deleted)]
         delChanges == SumSeq([i \in 1..Len(TableSeq) |-> Len(delRefs[TableSeq[i]])])
     IN  cl' = [cl EXCEPT ![c].delRefs = delRefs,
                 ![c].ti = @ + 1,
                 ![c].pc =
                   IF cl[c].ti < Len(TableSeq) THEN "findBase"
                   ELSE IF countChanges(cl[c].changes, delChanges)
                             < MAX_TRANSACTION_WRITES
                          THEN "inline" ELSE "batch",
                 ![c].path =
                   IF cl[c].ti < Len(TableSeq) THEN "none"
                   ELSE IF countChanges(cl[c].changes, delChanges)
                             < MAX_TRANSACTION_WRITES
                          THEN "inline" ELSE "batch"]
  /\ UNCHANGED <<store, nPush, commits, overlap, images, latest>>
  /\ UNCHANGED <<pl, sy, bw>>

\* a stale check that only notices a caller that is ahead of the root
OutOfSync_ahead(revision, lastPulledAt) == revision < lastPulledAt

\* the stale-write check of lines 392, 487 and 540
OutOfSync(revision, lastPulledAt) == revision # lastPulledAt

\* ------------------------------------------------------------- inline push
\* an inline push that stores the rows of a revision under a location of
\* their own instead of over the root copies
InlineOps_sideCopy(changes, delRefs, revision) ==
  FlattenSeq(
    [i \in 1..Len(TableSeq) |->
      LET table == TableSeq[i]
          raws == changes[table].created \o changes[table].updated
      IN  [j \in 1..Len(raws) |->
            SetOp(Ref(revision, table, encodeURIComponent(raws[j].id)),
                  StoredRecord(raws[j], revision))]
          \o [j \in 1..Len(delRefs[table]) |-> DeleteOp(delRefs[table][j].ref)]])

\* the operations pushAllChanges queues in its transaction (lines 400-428)
InlineOps(changes, delRefs, revision) ==
  FlattenSeq(
    [i \in 1..Len(TableSeq) |->
      LET table == TableSeq[i]
          raws == changes[table].created \o changes[table].updated
      IN  [j \in 1..Len(raws) |->
            SetOp(Ref(BASE, table, encodeURIComponent(raws[j].id)),
                  StoredRecord(raws[j], revision))]
          \o [j \in 1..Len(delRefs[table]) |-> DeleteOp(delRefs[table][j].ref)]])

\* the number of writes the transaction of pushAllChanges queues (lines
\* 400-446): the sets and deletes, the delete record when a table has
\* references, and the root update
TransactionWrites(changes, delRefs, revision) ==
  Len(InlineOps(changes, delRefs, revision))
    + (IF \E t \in Tables : InDelRefs(delRefs, t) THEN 1 ELSE 0)
    + 1

\* a TableDeletes map of the decoded ids
TableDeletesOf_decoded(delRefs) ==
  [t \in Tables |->
    [j \in 1..Len(delRefs[t]) |-> decodeURIComponent(delRefs[t][j].id)]]

\* tableDeletes of pushAllChanges and deletes of pushBatchedChanges
TableDeletesOf(delRefs) == [t \in Tables |-> RefIds(delRefs[t])]

\* the most recent events once changes is committed
LatestAfter(changes) ==
  [t \in Tables |-> [i \in Ids |->
    LET raws == changes[t].created \o changes[t].updated
    IN  IF \E j \in 1..Len(raws) : raws[j].id = i
          THEN [kind |-> "written",
                data |-> raws[CHOOSE j \in 1..Len(raws) : raws[j].id = i].data]
          ELSE IF \E j \in 1..Len(changes[t].deleted) : changes[t].deleted[j] = i
                 THEN [kind |-> "deleted", data |-> 0]
                 ELSE latest[t][i]]]

\* what a caller of pullChanges gets: the changes, or the thrown error
PullImage(res) == IF res.threw THEN [threw |-> TRUE] ELSE res.changes

\* what the history records when the call of client c commits
Committed(c) ==
  /\ commits' = [commits EXCEPT ![cl[c].lastPulledAt] = @ + 1]
  /\ images' = images \cup
       {PullImage(pullChanges(base', docs', batchDocs', delRecs', Tables, Null))}
  /\ latest' = LatestAfter(cl[c].changes)

\* pushAllChanges: one transaction; it reads the root, checks the revision
\* and commits, or the store rejects the commit
PushAllChanges(c) ==
  /\ cl[c].pc = "inline"
  /\ LET revision == revisionFromBaseSnap(base)[1]
         tableDeletes == TableDeletesOf(cl[c].delRefs)
     IN  IF OutOfSync(revision, cl[c].lastPulledAt)
           THEN /\ cl' = [cl EXCEPT ![c] = Finish(c, "outOfSync")]
                /\ UNCHANGED <<store, commits, images, latest>>
           ELSE \/ /\ docs' = ApplyOps(docs, InlineOps(cl[c].changes, cl[c].delRefs, revision))
                   /\ delRecs' = IF \E t \in Tables : InDelRefs(cl[c].delRefs, t)
                                   THEN Append(delRecs, [revision |-> revision,
                                                         deletes |-> tableDeletes])
                                   ELSE delRecs
                   /\ base' = [base EXCEPT !.melonLatestRevision = revision]
                   /\ UNCHANGED batchDocs
                   /\ cl' = [cl EXCEPT ![c] = Finish(c, "ok")]
                   /\ Committed(c)
                \/ /\ cl' = [cl EXCEPT ![c] = Finish(c, "storeError")]
                   /\ UNCHANGED <<store, commits, images, latest>>
  /\ UNCHANGED <<nPush, overlap>>
  /\ UNCHANGED <<pl, sy, bw>>

\* --------------------------------------------------------- side-batch push
\* the awaited BatchWriter calls of the stage loop (lines 497-517), in order
StageCalls(changes, delRefs) ==
  FlattenSeq(
    [i \in 1..Len(TableSeq) |->
      LET table == TableSeq[i]
          raws == changes[table].created \o changes[table].updated
      IN  [j \in 1..Len(raws) |->
            [kind |-> "write", table |-> table,
             rec |-> removeWatermelonInternals(raws[j]), refs |-> <<>>]]
          \o (IF InDelRefs(delRefs, table)
                THEN <<[kind |-> "deleted", table |-> table, rec |-> NoDoc,
                        refs |-> RefRefs(delRefs[table])]>>
                ELSE <<>>)])

\* pushBatchedChanges up to the stale check (lines 480-493): a fresh batch
\* handle, the read of the root, the BatchWriter
PreRead(c) ==
  /\ cl[c].pc = "batch"
  /\ LET rb == revisionFromBaseSnap(base)
         revision == rb[1]
         calls == StageCalls(cl[c].changes, cl[c].delRefs)
         mine == [cl[c] EXCEPT !.revision = revision, !.batchTokens = rb[2],
                               !.batchDoc = cl[c].no]
     IN  cl' = [cl EXCEPT ![c] =
                 IF OutOfSync(revision, cl[c].lastPulledAt)
                   THEN [Finish(c, "outOfSync") EXCEPT !.batchDoc = cl[c].no]
                   ELSE [mine EXCEPT !.calls = calls,
                                     !.pc = IF calls = <<>> THEN "flush" ELSE "stage"]]
  /\ UNCHANGED <<store, nPush, commits, overlap, images, latest>>
  /\ UNCHANGED <<pl, sy, bw>>

\* BatchWriter.write (lines 699-717): the operation it queues
WriteOp(batchDoc, revision, table, rec) ==
  SetOp(Ref(batchDoc, table, encodeURIComponent(rec.id)),
        [f \in (DOMAIN rec) \cup {"melonFireRevision"} |->
          IF f = "melonFireRevision" THEN revision ELSE rec[f]])

\* BatchWriter.deleted (lines 653-692) on a writer [queue, count], as far as
\* its first, awaited flushBatch: the head of refs fills the current batch
DeletedHead(writer, refs) ==
  LET headCount == Min(Len(refs), MAX_TRANSACTION_WRITES - writer.count)
  IN  [queue |-> writer.queue
                   \o [j \in 1..headCount |-> DeleteOp(refs[j])],
       count |-> writer.count + headCount,
       restRefs |-> Slice(refs, headCount, Len(refs))]

\* one awaited call of the stage loop.  A write batch is committed when the
\* counter reaches MAX_TRANSACTION_WRITES; the store may reject a commit, and
\* the error then leaves pushBatchedChanges at once (no rollback).
\* In deleted(), when MAX_TRANSACTION_WRITES or more refs are left after the
\* awaited flush, the loop of lines 669-688 commits the first full block
\* without awaiting it and goes on using the committed batch, which the store
\* client rejects: the block is deleted and the call throws.
StageCall(c) ==
  /\ cl[c].pc = "stage"
  /\ LET call == Head(cl[c].calls)
         rest == Tail(cl[c].calls)
         next == IF rest = <<>> THEN "flush" ELSE "stage"
         writer == [queue |-> cl[c].queue, count |-> cl[c].count]
     IN  IF call.kind = "write"
           THEN LET queue == Append(writer.queue,
                               WriteOp(cl[c].batchDoc, cl[c].revision,
                                       call.table, call.rec))
                    count == writer.count + 1
                IN  IF count = MAX_TRANSACTION_WRITES
                      THEN \/ /\ docs' = ApplyOps(docs, queue)
                              /\ cl' = [cl EXCEPT ![c].queue = <<>>, ![c].count = 0,
                                          ![c].calls = rest, ![c].pc = next]
                           \/ /\ cl' = [cl EXCEPT ![c] = Finish(c, "stageError")]
                              /\ UNCHANGED docs
                      ELSE /\ cl' = [cl EXCEPT ![c].queue = queue, ![c].count = count,
                                       ![c].calls = rest, ![c].pc = next]
                           /\ UNCHANGED docs
           ELSE LET h == DeletedHead(writer, call.refs)
                    deletes == [cl[c].deletes EXCEPT ![call.table] =
                                  RefIds(cl[c].delRefs[call.table])]
                IN  IF h.count = MAX_TRANSACTION_WRITES
                      THEN \/ /\ Len(h.restRefs) < MAX_TRANSACTION_WRITES
                              /\ docs' = ApplyOps(docs, h.queue)
                              /\ cl' = [cl EXCEPT
                                          ![c].queue = [j \in 1..Len(h.restRefs) |->
                                                         DeleteOp(h.restRefs[j])],
                                          ![c].count = Len(h.restRefs),
                                          ![c].deletes = deletes,
                                          ![c].calls = rest, ![c].pc = next]
                           \/ /\ Len(h.restRefs) >= MAX_TRANSACTION_WRITES
                              /\ docs' = ApplyOps(ApplyOps(docs, h.queue),
                                           [j \in 1..MAX_TRANSACTION_WRITES |->
                                             DeleteOp(h.restRefs[j])])
                              /\ cl' = [cl EXCEPT ![c] = Finish(c, "stageError")]
                           \/ /\ cl' = [cl EXCEPT ![c] = Finish(c, "stageError")]
                              /\ UNCHANGED docs
                      ELSE /\ cl' = [cl EXCEPT ![c].queue = h.queue,
                                       ![c].count = h.count,
                                       ![c].deletes = deletes,
                                       ![c].calls = rest, ![c].pc = next]
                           /\ UNCHANGED docs
  /\ UNCHANGED <<base, batchDocs, delRecs, nPush, commits, overlap, images, latest>>
  /\ UNCHANGED <<pl, sy, bw>>

\* a flush whose failed commit is caught like a failed integrate
Flush_rollsBack(c) ==
  /\ cl[c].pc = "flush"
  /\ \/ /\ docs' = ApplyOps(docs, cl[c].queue)
        /\ cl' = [cl EXCEPT ![c].queue = <<>>, ![c].count = 0,
                            ![c].pc = "integrate"]
     \/ /\ cl' = [cl EXCEPT ![c].pc = "rollback", ![c].result = "stageError"]
        /\ UNCHANGED docs
  /\ UNCHANGED <<base, batchDocs, delRecs, nPush, commits, overlap, images, latest>>
  /\ UNCHANGED <<pl, sy, bw>>

\* batch.flush() (line 519): the last, possibly partial, batch is committed
Flush(c) ==
  /\ cl[c].pc = "flush"
  /\ \/ /\ docs' = ApplyOps(docs, cl[c].queue)
        /\ cl' = [cl EXCEPT ![c].queue = <<>>, ![c].count = 0,
                            ![c].pc = "integrate"]
     \/ /\ cl' = [cl EXCEPT ![c] = Finish(c, "stageError")]
        /\ UNCHANGED docs
  /\ UNCHANGED <<base, batchDocs, delRecs, nPush, commits, overlap, images, latest>>
  /\ UNCHANGED <<pl, sy, bw>>

\* a root update that forgets melonLatestRevision
MergeBase_keepsRevision(b, revision, tokensUpdate) ==
  [melonLatestRevision |-> b.melonLatestRevision,
   melonBatchTokens |->
     [r \in Revisions |->
       IF tokensUpdate[r] # NoToken THEN tokensUpdate[r] ELSE b.melonBatchTokens[r]]]

\* set(baseDoc, baseUpdate, {merge: true}): the fields of the update replace
\* the root's, map fields are merged key by key
MergeBase(b, revision, tokensUpdate) ==
  [melonLatestRevision |-> revision,
   melonBatchTokens |->
     [r \in Revisions |->
       IF tokensUpdate[r] # NoToken THEN tokensUpdate[r] ELSE b.melonBatchTokens[r]]]

\* baseUpdate.melonBatchTokens (lines 527-530)
BatchTokensUpdate(batchTokens, revision, batchDoc) ==
  [batchTokens EXCEPT ![revision] = batchDoc]

\* an integrate that does not write the side-batch document
SetBatchDoc_forgotten(bd, batchDoc, revision, deletes) == bd

\* trans.set(batchDoc, root) (lines 534-548)
SetBatchDoc(bd, batchDoc, revision, deletes) ==
  [bd EXCEPT ![batchDoc] = [melonLatestRevision |-> revision, deletes |-> deletes]]

\* the integrate transaction (lines 524-552).  It reads nothing: revision and
\* batchTokens are those of the read of line 481.  The store may reject it,
\* and the catch block then rolls back; result holds the error it caught.
Integrate(c) ==
  /\ cl[c].pc = "integrate"
  /\ LET revision == cl[c].revision
         batchDoc == cl[c].batchDoc
     IN  IF OutOfSync(revision, cl[c].lastPulledAt)
           THEN /\ cl' = [cl EXCEPT ![c].pc = "rollback", ![c].result = "outOfSync"]
                /\ UNCHANGED <<store, commits, images, latest>>
           ELSE \/ /\ batchDocs' = SetBatchDoc(batchDocs, batchDoc, revision,
                                                cl[c].deletes)
                   /\ base' = MergeBase(base, revision,
                                BatchTokensUpdate(cl[c].batchTokens, revision, batchDoc))
                   /\ UNCHANGED <<docs, delRecs>>
                   /\ cl' = [cl EXCEPT ![c] = Finish(c, "ok")]
                   /\ Committed(c)
                \/ /\ cl' = [cl EXCEPT ![c].pc = "rollback", ![c].result = "storeError"]
                   /\ UNCHANGED <<store, commits, images, latest>>
  /\ UNCHANGED <<nPush, overlap>>
  /\ UNCHANGED <<pl, sy, bw>>

\* the catch block (lines 553-581).  rollbackRefs gets one element per table,
\* the array of the refs of that table (line 560); the blocks are slices of
\* rollbackRefs, so batch.delete is handed arrays.
RollbackRefs(d, batchDoc) ==
  [i \in 1..Len(TableSeq) |->
    LET writtenDocs == SelectSeq(KeySeq, LAMBDA k : d[batchDoc][TableSeq[i]][k] # NoDoc)
    IN  [isArray |-> TRUE,
         items |-> [j \in 1..Len(writtenDocs) |->
                     Ref(batchDoc, TableSeq[i], writtenDocs[j])]]]

\* the delete batches of the rollback loop from block iBlock on: the store
\* after them, whether a batch.delete threw, and the delete operations of
\* every batch that was committed.  batch.delete accepts a document
\* reference only.
RECURSIVE RollbackBlocks(_, _, _)
RollbackBlocks(d, rollbackRefs, iBlock) ==
  IF ~(iBlock * MAX_TRANSACTION_WRITES < Len(rollbackRefs) + MAX_TRANSACTION_WRITES)
    THEN [docs |-> d, threw |-> FALSE, batches |-> <<>>]
    ELSE LET block == Slice(rollbackRefs, iBlock * MAX_TRANSACTION_WRITES,
                            (iBlock + 1) * MAX_TRANSACTION_WRITES)
         IN  IF \E j \in 1..Len(block) : block[j].isArray
               THEN [docs |-> d, threw |-> TRUE, batches |-> <<>>]
               ELSE LET ops == [j \in 1..Len(block) |-> DeleteOp(block[j].ref)]
                        r == RollbackBlocks(ApplyOps(d, ops), rollbackRefs, iBlock + 1)
                    IN  [r EXCEPT !.batches = <<ops>> \o @]

\* the catch block as a whole: an error of the rollback leaves
\* pushBatchedChanges as it is thrown; otherwise err is thrown again (line 580)
Rollback(c) ==
  /\ cl[c].pc = "rollback"
  /\ LET r == RollbackBlocks(docs, RollbackRefs(docs, cl[c].batchDoc), 0)
         err == cl[c].result
     IN  /\ docs' = r.docs
         /\ cl' = [cl EXCEPT ![c] =
                     Finish(c, IF r.threw THEN "rollbackError" ELSE err)]
  /\ UNCHANGED <<base, batchDocs, delRecs, nPush, commits, overlap, images, latest>>
  /\ UNCHANGED <<pl, sy, bw>>

Next ==
  \E c \in Clients :
    \/ PushChanges(c)
    \/ FindBaseRefs(c)
    \/ FindBatchRefs(c)
    \/ PushAllChanges(c)
    \/ PreRead(c)
    \/ StageCall(c)
    \/ Flush(c)
    \/ Integrate(c)
    \/ Rollback(c)

Spec == Init /\ [][Next]_vars

\* ---------------------------------------------------------- pull as a process
\* pullChanges read by read: every await of lines 146-196 is one step of the
\* reader, and the pushChanges calls of the writers run between its reads.
\* None of the reads is in a transaction.
PushesRunning == \E c \in Clients : Running(c)

\* pullChanges(tables, baseDoc, {lastPulledAt}) is called with all tables
PullChanges ==
  /\ pl.pc = "idle"
  /\ pl.n < MaxPulls
  /\ \E lastPulledAt \in {Null} \cup PulledTimestamps :
       pl' = [pl EXCEPT !.pc = "root",
                        !.lastPulledAt = lastPulledAt,
                        !.w = [threw |-> FALSE, map |-> EmptyChangeMap],
                        !.result = NoResult,
                        !.n = @ + 1,
                        !.n0 = nPush,
                        !.q0 = ~PushesRunning,
                        !.before = PullNow(lastPulledAt),
                        !.prev = [lastPulledAt |-> pl.lastPulledAt,
                                  result |-> pl.result,
                                  q0 |-> pl.q0 /\ pl.n0 = nPush /\ ~PushesRunning]]
  /\ UNCHANGED <<store, cl, nPush, commits, overlap, images, latest, sy, bw>>

\* baseDoc.get() and revisionFromBaseSnap (lines 145-159)
PullRoot ==
  /\ pl.pc = "root"
  /\ LET rb == revisionFromBaseSnap(base)
         start == StartRevision(pl.lastPulledAt)
     IN  pl' = [pl EXCEPT !.endRevision = rb[1],
                          !.batchTokens = rb[2],
                          !.start = start,
                          !.end = start,
                          !.pc = IF start < rb[1] THEN "merge" ELSE "return"]
  /\ UNCHANGED <<store, cl, nPush, commits, overlap, images, latest, sy, bw>>

\* the walk is at a revision that a side-batch holds
AtBatch == HasToken(pl.batchTokens, pl.start)

\* one turn of the while loop as far as mergeCreatesAndUpdates (lines 168-179
\* and 189): the table queries of the run [start, end)
PullMerge ==
  /\ pl.pc = "merge"
  /\ LET end == RunEnd(pl.start, pl.endRevision, pl.batchTokens)
     IN  IF end = pl.start
           THEN pl' = [pl EXCEPT
                        !.end = end + 1,
                        !.w.map = mergeCreatesAndUpdates(
                                    docs[pl.batchTokens[end]], pl.start, end + 1,
                                    Tables, pl.w.map),
                        !.pc = "deletes"]
           ELSE pl' = [pl EXCEPT
                        !.end = end,
                        !.w.map = mergeCreatesAndUpdates(
                                    docs[BASE], pl.start, end, Tables, pl.w.map),
                        !.pc = "deletes"]
  /\ UNCHANGED <<store, cl, nPush, commits, overlap, images, latest, sy, bw>>

\* the rest of the turn: the deletions of the side-batch document (lines
\* 176-187) or of the melonDeletes records of the run (lines 192-205)
PullDeletes ==
  /\ pl.pc = "deletes"
  /\ LET next == IF pl.end < pl.endRevision THEN "merge" ELSE "return"
     IN  IF AtBatch
           THEN LET rootDoc == batchDocs[pl.batchTokens[pl.start]]
                IN  IF rootDoc = NoDoc
                      THEN pl' = [pl EXCEPT !.w.threw = TRUE, !.pc = "return"]
                      ELSE pl' = [pl EXCEPT
                                   !.w.map = AddDeletes(pl.w.map, rootDoc.deletes),
                                   !.start = pl.end,
                                   !.pc = next]
           ELSE LET records == SelectSeq(delRecs, LAMBDA rec :
                                 rec.revision >= pl.start /\ rec.revision < pl.end)
                IN  pl' = [pl EXCEPT
                            !.w.map = AddDeleteRecords(pl.w.map, records),
                            !.start = pl.end,
                            !.pc = next]
  /\ UNCHANGED <<store, cl, nPush, commits, overlap, images, latest, sy, bw>>

\* a pull that stamps the timestamp it returns on the root
PullReturn_stamps ==
  /\ pl.pc = "return"
  /\ pl' = [pl EXCEPT !.result = PullResult(pl.w, Tables, pl.endRevision),
                      !.pc = "idle"]
  /\ base' = [base EXCEPT !.melonLatestRevision = pl.endRevision]
  /\ UNCHANGED <<docs, batchDocs, delRecs>>
  /\ UNCHANGED <<cl, nPush, commits, overlap, images, latest, sy, bw>>

\* lines 210-225: the call returns, or throws
PullReturn ==
  /\ pl.pc = "return"
  /\ pl' = [pl EXCEPT !.result = PullResult(pl.w, Tables, pl.endRevision),
                      !.pc = "idle"]
  /\ UNCHANGED <<store, cl, nPush, commits, overlap, images, latest, sy, bw>>

\* the reader's call has returned (or thrown)
PullReturned == pl.pc = "idle" /\ pl.result # NoResult

\* one writer and one reader
Writers == {1}

NextPull ==
  \/ \E c \in Writers :
       \/ PushPulled(c)
       \/ FindBaseRefs(c)
       \/ FindBatchRefs(c)
       \/ PushAllChanges(c)
       \/ PreRead(c)
       \/ StageCall(c)
       \/ Flush(c)
       \/ Integrate(c)
       \/ Rollback(c)
  \/ PullChanges
  \/ PullRoot
  \/ PullMerge
  \/ PullDeletes
  \/ PullReturn

SpecPull == Init /\ [][NextPull]_vars

\* one writer whose rows have any of the ids
NextIds ==
  \E c \in Writers :
    \/ PushAnyId(c)
    \/ FindBaseRefs(c)
    \/ FindBatchRefs(c)
    \/ PushAllChanges(c)
    \/ PreRead(c)
    \/ StageCall(c)
    \/ Flush(c)
    \/ Integrate(c)
    \/ Rollback(c)

SpecIds == Init /\ [][NextIds]_vars

\* pushChanges is called with updated rows of any id by callers that have
\* just pulled, as often as MaxPushes allows
PushWide(c) ==
  /\ cl[c].pc = "idle"
  /\ nPush < MaxPushes
  /\ \E ev \in [Tables -> [AllIds -> {"none", "updated"}]] :
       cl' = [cl EXCEPT ![c] =
                [IdleClient EXCEPT !.pc = "findBase",
                                   !.no = nPush + 1,
                                   !.lastPulledAt = revisionFromBaseSnap(base)[1],
                                   !.changes = ChangesOf(ev, nPush + 1)]]
  /\ nPush' = nPush + 1
  /\ overlap' = (overlap \/ \E o \in Clients \ {c} : Running(o))
  /\ UNCHANGED <<store, commits, images, latest>>
  /\ UNCHANGED <<pl, sy, bw>>

NextWide ==
  \E c \in Clients :
    \/ PushWide(c)
    \/ FindBaseRefs(c)
    \/ FindBatchRefs(c)
    \/ PushAllChanges(c)
    \/ PreRead(c)
    \/ StageCall(c)
    \/ Flush(c)
    \/ Integrate(c)
    \/ Rollback(c)

SpecWide == Init /\ [][NextWide]_vars

\* one writer of updated rows of any id, whose calls are as many as a
\* caller that pulls makes, and one reader; an awaited read of the reader is
\* answered in the end
PullStep == PullRoot \/ PullMerge \/ PullDeletes \/ PullReturn

NextWalk ==
  \/ \E c \in Writers :
       \/ nPush < MaxPulledPushes /\ PushWide(c)
       \/ FindBaseRefs(c)
       \/ FindBatchRefs(c)
       \/ PushAllChanges(c)
       \/ PreRead(c)
       \/ StageCall(c)
       \/ Flush(c)
       \/ Integrate(c)
       \/ Rollback(c)
  \/ PullChanges
  \/ PullRoot
  \/ PullMerge
  \/ PullDeletes
  \/ PullReturn

SpecWalk == Init /\ [][NextWalk]_vars /\ WF_vars(PullStep)

\* a pullChanges call made while no pushChanges call is running: nothing
\* writes between its reads, so they all see one state of the store.  A
\* caller that has pulled before passes null or the timestamp it got.
PullBetweenPushes ==
  /\ pl.pc = "idle"
  /\ pl.n < MaxPulls
  /\ ~PushesRunning
  /\ \E lastPulledAt \in {Null} \cup
          (IF pl.result # NoResult /\ ~pl.result.threw
             THEN {pl.result.timestamp} ELSE {}) :
       pl' = [pl EXCEPT !.lastPulledAt = lastPulledAt,
                        !.endRevision = revisionFromBaseSnap(base)[1],
                        !.batchTokens = revisionFromBaseSnap(base)[2],
                        !.result = PullNow(lastPulledAt),
                        !.n = @ + 1,
                        !.n0 = nPush,
                        !.q0 = TRUE,
                        !.before = PullNow(lastPulledAt),
                        !.prev = [lastPulledAt |-> pl.lastPulledAt,
                                  result |-> pl.result,
                                  q0 |-> pl.q0]]
  /\ UNCHANGED <<store, cl, nPush, commits, overlap, images, latest, sy, bw>>

\* one writer whose calls are made one after another, and a reader that
\* pulls between them
NextSplit ==
  \/ \E c \in Writers :
       \/ PushChanges(c)
       \/ FindBaseRefs(c)
       \/ FindBatchRefs(c)
       \/ PushAllChanges(c)
       \/ PreRead(c)
       \/ StageCall(c)
       \/ Flush(c)
       \/ Integrate(c)
       \/ Rollback(c)
  \/ PullBetweenPushes

SpecSplit == Init /\ [][NextSplit]_vars

\* ------------------------------------------------- stores written by v1
\* a record as the first version stored it: with the Watermelon internals
\* and melonFireChange (lines 40-47 and the comment of lines 267-269)
LegacyRecord(id) ==
  [id |-> id, data |-> 1, melonFireRevision |-> MIN_REVISION,
   melonFireChange |-> "created", _status |-> "created", _changed |-> ""]

\* the store after a first-version client pushed revision 1 with the rows S
LegacyDocs(S) ==
  [l \in Locs |->
    IF l = BASE
      THEN [t \in Tables |-> [k \in Keys |->
             IF \E i \in S : encodeURIComponent(i) = k
               THEN LegacyRecord(CHOOSE i \in S : encodeURIComponent(i) = k)
               ELSE NoDoc]]
      ELSE EmptyTables]

InitLegacy ==
  /\ pl = IdlePull
  /\ sy = IdleSync
  /\ bw = NewWriter
  /\ base = [melonLatestRevision |-> MIN_REVISION, melonBatchTokens |-> NoTokens]
  /\ \E S \in (SUBSET Ids) \ {{}} :
       /\ docs = LegacyDocs(S)
       /\ latest = [t \in Tables |-> [i \in Ids |->
                      IF i \in S THEN [kind |-> "written", data |-> 1]
                                 ELSE [kind |-> "none", data |-> 0]]]
  /\ batchDocs = [k \in Tokens |-> NoDoc]
  /\ delRecs = <<>>
  /\ cl = [c \in Clients |-> IdleClient]
  /\ nPush = 1
  /\ commits = [r \in Revisions |-> IF r = MIN_REVISION THEN 1 ELSE 0]
  /\ overlap = FALSE
  /\ images = {[t \in Tables |-> [created |-> {}, updated |-> {}, deleted |-> {}]],
               PullImage(pullChanges(base, docs, batchDocs, delRecs, Tables, Null))}

SpecLegacy == InitLegacy /\ [][NextSplit]_vars

\* --------------------------------------------------------------- syncMelonFire
\* syncMelonFire (lines 91-103) on one device: sync() is synchronize() of the
\* sync framework, which awaits pullChanges with the lastPulledAt of the
\* local database and then pushChanges with the timestamp of that pull; an
\* error of either leaves sync().  The device is writer 1 and the reader.
Device == 1

\* syncMelonFire(database, baseDoc) is called: the try block calls sync()
SyncMelonFire ==
  /\ sy.pc = "idle"
  /\ sy.n < MaxSyncs
  /\ ~Running(Device) /\ pl.pc = "idle"
  /\ sy' = [sy EXCEPT !.pc = "pull", !.n = @ + 1, !.attempt = 1,
                      !.thrown = <<>>, !.result = "none"]
  /\ UNCHANGED <<store, cl, nPush, commits, overlap, images, latest, pl, bw>>

\* sync(): pullChanges is called with the lastPulledAt of the local database
SyncPull ==
  /\ sy.pc = "pull"
  /\ sy' = [sy EXCEPT !.pc = "pulling"]
  /\ pl' = [pl EXCEPT !.pc = "root",
                      !.lastPulledAt = sy.lastPulledAt,
                      !.w = [threw |-> FALSE, map |-> EmptyChangeMap],
                      !.result = NoResult,
                      !.n = @ + 1,
                      !.n0 = nPush,
                      !.q0 = ~PushesRunning,
                      !.before = PullNow(sy.lastPulledAt),
                      !.prev = [lastPulledAt |-> pl.lastPulledAt,
                                result |-> pl.result,
                                q0 |-> pl.q0 /\ pl.n0 = nPush /\ ~PushesRunning]]
  /\ UNCHANGED <<store, cl, nPush, commits, overlap, images, latest, bw>>

\* a read of pullChanges is rejected by the store: the call throws
PullFails ==
  /\ sy.pc = "pulling"
  /\ pl.pc \in {"root", "merge", "deletes"}
  /\ pl' = [pl EXCEPT !.pc = "idle", !.result = [threw |-> TRUE]]
  /\ UNCHANGED <<store, cl, nPush, commits, overlap, images, latest, sy, bw>>

\* sync(): the pull has returned and pushChanges is called with its timestamp
\* and the local changes
SyncPush ==
  /\ sy.pc = "pulling"
  /\ PullReturned /\ ~pl.result.threw
  /\ nPush < MaxPushes
  /\ sy' = [sy EXCEPT !.pc = "pushing", !.lastPulledAt = pl.result.timestamp]
  /\ \E ev \in [Tables -> [Ids -> Events \ {"created"}]] :
       cl' = [cl EXCEPT ![Device] =
                [IdleClient EXCEPT !.pc = "findBase",
                                   !.no = nPush + 1,
                                   !.lastPulledAt = pl.result.timestamp,
                                   !.changes = ChangesOf(ev, nPush + 1)]]
  /\ nPush' = nPush + 1
  /\ overlap' = (overlap \/ \E o \in Clients \ {Device} : Running(o))
  /\ UNCHANGED <<store, commits, images, latest, pl, bw>>

\* the current sync() call is over, and how
AttemptThrew ==
  \/ sy.pc = "pulling" /\ PullReturned /\ pl.result.threw
  \/ sy.pc = "pushing" /\ ~Running(Device) /\ cl[Device].result # "ok"
AttemptReturned ==
  sy.pc = "pushing" /\ ~Running(Device) /\ cl[Device].result = "ok"
AttemptError ==
  IF sy.pc = "pulling" THEN "pullError" ELSE cl[Device].result

\* an error of every sync() call is caught
Caught_always(attempt) == TRUE

\* the sync() of the try block (line 98) has a catch, the one of the catch
\* block (line 101) has none
Caught(attempt) == attempt = 1

\* sync() returns: syncMelonFire returns
SyncReturn ==
  /\ AttemptReturned
  /\ sy' = [sy EXCEPT !.pc = "idle", !.result = "ok"]
  /\ UNCHANGED <<store, cl, nPush, commits, overlap, images, latest, pl, bw>>

\* the sync() of the try block throws: the catch block calls sync() again
SyncRetry ==
  /\ AttemptThrew
  /\ Caught(sy.attempt)
  /\ sy' = [sy EXCEPT !.pc = "pull", !.attempt = @ + 1,
                      !.thrown = Append(@, AttemptError)]
  /\ UNCHANGED <<store, cl, nPush, commits, overlap, images, latest, pl, bw>>

\* the sync() of the catch block throws: the error leaves syncMelonFire
SyncThrow ==
  /\ AttemptThrew
  /\ ~Caught(sy.attempt)
  /\ sy' = [sy EXCEPT !.pc = "idle", !.result = AttemptError,
                      !.thrown = Append(@, AttemptError)]
  /\ UNCHANGED <<store, cl, nPush, commits, overlap, images, latest, pl, bw>>

NextSync ==
  \/ SyncMelonFire
  \/ SyncPull
  \/ PullRoot
  \/ PullMerge
  \/ PullDeletes
  \/ PullReturn
  \/ PullFails
  \/ SyncPush
  \/ FindBaseRefs(Device)
  \/ FindBatchRefs(Device)
  \/ PushAllChanges(Device)
  \/ PreRead(Device)
  \/ StageCall(Device)
  \/ Flush(Device)
  \/ Integrate(Device)
  \/ Rollback(Device)
  \/ SyncReturn
  \/ SyncRetry
  \/ SyncThrow

SpecSync == Init /\ [][NextSync]_vars

\* ----------------------------------------------------------------- BatchWriter
\* The BatchWriter (lines 612-718) by itself, under any sequence of awaited
\* calls: created/updated (write), deleted with any number of refs, then
\* flush.  The operations are numbered in the order they are requested.  A
\* call is one step: the caller awaits it and nothing else uses the writer
\* meanwhile.  A write batch refuses set, delete and commit once commit() has
\* been called on it (the store client's contract); okCommit says whether
\* the store accepts the commits the call awaits.

\* calls of one writer before its flush
MaxWriterCalls == 4
\* the largest refs array handed to deleted: more than twice a full batch
MaxRefs == 2 * MAX_TRANSACTION_WRITES + 1

Throw(w, err) == [w EXCEPT !.pc = "threw", !.error = err]

\* this.batch.set / this.batch.delete of the operations ops, in order
Queue(w, ops) ==
  IF ops = <<>> THEN w
  ELSE IF w.handles[w.batch].state # "open" THEN Throw(w, "batchCommitted")
  ELSE [w EXCEPT !.handles[w.batch].ops = @ \o ops]

\* lines 627-628, after the commit of handle h has resolved
Reopen(w, h) ==
  [w EXCEPT !.handles = Append([@ EXCEPT ![h].state = "committed"], NewBatch),
            !.batch = Len(w.handles) + 1,
            !.count = 0]

\* await this.flushBatch() (lines 625-629)
flushBatch(w, okCommit) ==
  IF w.handles[w.batch].state # "open" THEN Throw(w, "batchCommitted")
  ELSE IF ~okCommit
    THEN Throw([w EXCEPT !.handles[w.batch].state = "rejected"], "commitRejected")
  ELSE Reopen(w, w.batch)

\* this.flushBatch() without await (line 686): commit() is called and the
\* rest of flushBatch runs when the commit resolves; when commit() throws
\* the rejection is nobody's
flushBatch_unawaited(w) ==
  IF w.handles[w.batch].state # "open"
    THEN [w EXCEPT !.unhandled = @ + 1]
    ELSE [w EXCEPT !.handles[w.batch].state = "committing", !.pending = w.batch]

\* a counter that lets one operation more into a batch before it flushes
bumpCount_over(w, okCommit) ==
  LET c == [w EXCEPT !.count = @ + 1]
  IN  IF c.count = MAX_TRANSACTION_WRITES + 1 THEN flushBatch(c, okCommit) ELSE c

\* bumpCount (lines 631-636)
bumpCount(w, okCommit) ==
  LET c == [w EXCEPT !.count = @ + 1]
  IN  IF c.count = MAX_TRANSACTION_WRITES THEN flushBatch(c, okCommit) ELSE c

\* write (lines 699-717) of operation op
write(w, op, okCommit) ==
  LET q == Queue(w, <<op>>)
  IN  IF q.pc = "threw" THEN q ELSE bumpCount(q, okCommit)

\* the block loop of deleted (lines 669-688) from block iBlock on
RECURSIVE DeletedBlocks(_, _, _)
DeletedBlocks(w, restRefs, iBlock) ==
  IF w.pc = "threw"
       \/ ~(iBlock * MAX_TRANSACTION_WRITES < Len(restRefs) + MAX_TRANSACTION_WRITES)
    THEN w
    ELSE LET block == Slice(restRefs, iBlock * MAX_TRANSACTION_WRITES,
                            (iBlock + 1) * MAX_TRANSACTION_WRITES)
             q == Queue(w, block)
             c == [q EXCEPT !.count = @ + Len(block)]
         IN  IF q.pc = "threw" THEN q
             ELSE DeletedBlocks(
                    IF c.count = MAX_TRANSACTION_WRITES
                      THEN flushBatch_unawaited(c) ELSE c,
                    restRefs, iBlock + 1)

\* deleted (lines 653-692) of the operations refs
deleted(w, refs, okCommit) ==
  LET headCount == Min(Len(refs), MAX_TRANSACTION_WRITES - w.count)
      q == Queue(w, Slice(refs, 0, headCount))
      c == [q EXCEPT !.count = @ + headCount]
      restRefs == Slice(refs, headCount, Len(refs))
  IN  IF q.pc = "threw" THEN q
      ELSE IF c.count = MAX_TRANSACTION_WRITES
        THEN DeletedBlocks(flushBatch(c, okCommit), restRefs, 0)
        ELSE c

\* await batch.created(table, rec) or await batch.updated(table, rec)
WriterWrite ==
  /\ bw.pc = "ready"
  /\ bw.calls < MaxWriterCalls
  /\ \E okCommit \in BOOLEAN :
       bw' = write([bw EXCEPT !.calls = @ + 1, !.nOps = @ + 1],
                   bw.nOps + 1, okCommit)
  /\ UNCHANGED <<store, cl, nPush, commits, overlap, images, latest, pl, sy>>

\* await batch.deleted(refs)
WriterDeleted ==
  /\ bw.pc = "ready"
  /\ bw.calls < MaxWriterCalls
  /\ \E n \in 0..MaxRefs, okCommit \in BOOLEAN :
       bw' = deleted([bw EXCEPT !.calls = @ + 1, !.deletedCalls = @ + 1,
                                !.nOps = @ + n],
                     [j \in 1..n |-> bw.nOps + j], okCommit)
  /\ UNCHANGED <<store, cl, nPush, commits, overlap, images, latest, pl, sy>>

\* await batch.flush() (lines 638-641)
WriterFlush ==
  /\ bw.pc = "ready"
  /\ \E okCommit \in BOOLEAN :
       LET f == flushBatch([bw EXCEPT !.flushes = @ + 1], okCommit)
       IN  bw' = IF f.pc = "threw" THEN f ELSE [f EXCEPT !.pc = "flushed"]
  /\ UNCHANGED <<store, cl, nPush, commits, overlap, images, latest, pl, sy>>

\* the commit that line 686 started resolves, and the rest of that
\* flushBatch runs whatever the writer is doing by then; or it is rejected
CommitResolves ==
  /\ bw.pending # 0
  /\ \/ bw' = [Reopen(bw, bw.pending) EXCEPT !.pending = 0]
     \/ bw' = [bw EXCEPT !.handles[bw.pending].state = "rejected",
                         !.pending = 0, !.unhandled = @ + 1]
  /\ UNCHANGED <<store, cl, nPush, commits, overlap, images, latest, pl, sy>>

NextWriter ==
  \/ WriterWrite
  \/ WriterDeleted
  \/ WriterFlush
  \/ CommitResolves

SpecWriter == Init /\ [][NextWriter]_vars

\* ================================================================== claims
Successes == SumSeq([r \in 1..MaxPushes |-> commits[r]])
Quiet == \A c \in Clients : ~Running(c)
NextRevision == revisionFromBaseSnap(base)[1]
NoBatchDocs == \A k \in Tokens : batchDocs[k] = NoDoc

\* C1: when the pushChanges calls are made one after another, the root's
\* melonLatestRevision is the number of calls that returned successfully.
C1_Monotonicity == ~overlap => base.melonLatestRevision = Successes

\* calls made one after another, on both paths, some failed, two committed
C1_Witness ==
  /\ ~overlap /\ Quiet
  /\ base.melonLatestRevision = Successes
  /\ Successes >= 2
  /\ nPush > Successes
  /\ \E c \in Clients : cl[c].path = "batch" /\ cl[c].result = "ok"

\* C2: at every state of the store, also between the commits of a stage phase
\* and after a failed integrate, the changes a pull from null returns are
\* those it returned right after some prefix of the committed pushes (here
\* for calls made one after another).
C2_CrashConsistent ==
  ~overlap => PullImage(PullNow(Null)) \in images

C4_IntegrateReverified ==
  [][\A c \in Clients :
       (cl[c].pc = "integrate" /\ cl'[c].pc # "integrate"
          /\ cl[c].lastPulledAt # NextRevision)
         => base' = base /\ batchDocs' = batchDocs]_vars

\* C5: while only inline pushes have committed, of the calls made with one
\* lastPulledAt at most one commits; a later one fails with the out-of-sync
\* error, and an inline push that does not commit changes nothing.
C5_InlineExclusive ==
  /\ [](NoBatchDocs => \A r \in Revisions : commits[r] <= 1)
  /\ [][\A c \in Clients :
          (cl[c].pc = "inline" /\ cl'[c].pc = "idle")
            => /\ (NoBatchDocs /\ commits[cl[c].lastPulledAt] > 0)
                    => cl'[c].result = "outOfSync"
               /\ commits' = commits => store' = store]_vars

\* two overlapping inline pushes with the same lastPulledAt: one committed, the
\* other was rejected
C5_Witness ==
  /\ overlap /\ nPush = 2 /\ NoBatchDocs
  /\ \E c, o \in Clients :
       /\ cl[c].result = "ok" /\ cl[c].path = "inline"
       /\ cl[o].result = "outOfSync" /\ cl[o].path = "inline"
  /\ \E t \in Tables, k \in Keys : docs[BASE][t][k] # NoDoc

\* the rows whose most recent committed event is a create or an update
LiveRows(t) ==
  {[id |-> i, data |-> latest[t][i].data] :
     i \in {j \in Ids : latest[t][j].kind = "written"}}

\* C6: after successful pushes made one after another, a pull from null
\* returns in updated exactly the rows whose most recent event is a create or
\* an update, with the payload of that event.
C6_LatestEventWins ==
  (~overlap /\ Quiet /\ nPush = Successes)
    => /\ ~PullNow(Null).threw
       /\ \A t \in Tables : PullNow(Null).changes[t].updated = LiveRows(t)

\* the step with which the call of client c returns successfully
Commits(c) == Running(c) /\ (~Running(c))' /\ cl'[c].result = "ok"

SeqToSet(q) == {q[j] : j \in 1..Len(q)}
WrittenRows(changes, t) ==
  {removeWatermelonInternals(r) :
     r \in SeqToSet(changes[t].created \o changes[t].updated)}
\* the ids of changes[t].deleted of which findDeleteRefs found a stored copy
DiscoveredIds(changes, delRefs, t) ==
  {i \in SeqToSet(changes[t].deleted) :
     \E j \in 1..Len(delRefs[t]) : delRefs[t][j].ref.key = encodeURIComponent(i)}

C8_RollbackClean ==
  [][\A c \in Clients :
       (cl[c].pc = "rollback" /\ cl'[c].pc = "idle")
         => docs'[cl[c].batchDoc] = EmptyTables]_vars

PullStarts == {Null} \cup Revisions

\* C9: in what pullChanges returns, for every lastPulledAt and table, an id
\* that was both written and deleted in the pulled range is in deleted and no
\* row of updated has it.
C9_DeleteOcclusion ==
  \A lp \in PullStarts, t \in Tables :
    LET w == PullMap(base, docs, batchDocs, delRecs, Tables, lp)
        res == PullNow(lp)
    IN  ~w.threw =>
          \A i \in IdUniverse :
            (w.map[t].updated[i] # NoRow /\ w.map[t].updated[i].id \in w.map[t].deleted)
              => /\ w.map[t].updated[i].id \in res.changes[t].deleted
                 /\ \A r \in res.changes[t].updated : r.id # w.map[t].updated[i].id

\* the pulled range holds a row of an id and a deletion of that id
C9_Witness ==
  \E t \in Tables, i \in IdUniverse :
    LET w == PullMap(base, docs, batchDocs, delRecs, Tables, Null)
    IN  /\ ~w.threw
        /\ w.map[t].updated[i] # NoRow
        /\ w.map[t].updated[i].id \in w.map[t].deleted

Linked(k) == \E r \in Revisions : base.melonBatchTokens[r] = k
\* the store without what lies under the side-batch handles no token names
LinkedDocs == [l \in Locs |-> IF l = BASE \/ Linked(l) THEN docs[l] ELSE EmptyTables]
LinkedBatchDocs == [k \in Tokens |-> IF Linked(k) THEN batchDocs[k] ELSE NoDoc]

\* C10: a pull returns nothing of a side-batch no token names; every token
\* under key R names an existing side-batch document of revision R; a token
\* is written when all calls of the stage are done and the writer is
\* flushed, and no table document is written under a side-batch once a
\* token names it.
C10_PrivateUntilIntegrated ==
  /\ [](/\ \A lp \in PullStarts :
             PullNow(lp) = pullChanges(base, LinkedDocs, LinkedBatchDocs,
                                       delRecs, Tables, lp)
        /\ \A r \in Revisions :
             HasToken(base.melonBatchTokens, r)
               => /\ batchDocs[base.melonBatchTokens[r]] # NoDoc
                  /\ batchDocs[base.melonBatchTokens[r]].melonLatestRevision = r)
  /\ [][/\ \A r \in Revisions :
             base'.melonBatchTokens[r] # base.melonBatchTokens[r]
               => \E c \in Clients :
                    /\ cl[c].pc = "integrate"
                    /\ cl[c].batchDoc = base'.melonBatchTokens[r]
                    /\ cl[c].calls = <<>> /\ cl[c].queue = <<>>
        /\ \A k \in Tokens, t \in Tables, key \in Keys :
             Linked(k) => docs'[k][t][key] \in {docs[k][t][key], NoDoc}]_vars

\* one side-batch is integrated and holds rows while another handle holds
\* staged rows that no token names
C10_Witness ==
  \E k, u \in Tokens :
    /\ Linked(k) /\ docs[k] # EmptyTables
    /\ ~Linked(u) /\ docs[u] # EmptyTables

\* C11: a pullChanges call that began while no push was running, during
\* which one pushChanges call was made, returns what a pull run entirely
\* before that push or entirely after it returns.
C11_ConsistentRead ==
  (/\ PullReturned
   /\ pl.q0
   /\ nPush = pl.n0 + 1
   /\ ~PushesRunning)
    => pl.result \in {pl.before, PullNow(pl.lastPulledAt)}

\* the reader's last two calls had the same lastPulledAt, both have returned,
\* and no pushChanges call was running or made from the start of the first
\* to the return of the second
Repulled ==
  /\ PullReturned
  /\ pl.prev.result # NoResult
  /\ pl.prev.q0
  /\ nPush = pl.n0
  /\ pl.prev.lastPulledAt = pl.lastPulledAt

EmptyPull(r) ==
  [threw |-> FALSE,
   changes |-> [t \in Tables |-> [created |-> {}, updated |-> {}, deleted |-> {}]],
   timestamp |-> r]

\* C13: pullChanges with lastPulledAt = melonLatestRevision + 1 returns empty
\* created, updated and deleted for every table and that same timestamp.
C13_Watermark ==
  PullNow(base.melonLatestRevision + 1) = EmptyPull(base.melonLatestRevision + 1)

\* the root was produced by an inline and a side-batch push, and a pull from
\* null returns rows and deletions
C13_Witness ==
  /\ \E r \in Revisions : HasToken(base.melonBatchTokens, r)
  /\ \E r \in 1..base.melonLatestRevision : ~HasToken(base.melonBatchTokens, r)
  /\ ~PullNow(Null).threw
  /\ \E t \in Tables : /\ PullNow(Null).changes[t].updated # {}
                       /\ PullNow(Null).changes[t].deleted # {}
  /\ C13_Watermark

\* C14: pullChanges returns, whatever lastPulledAt, the timestamp
\* (melonLatestRevision ?? 0) + 1 of the root: 1 with all lists empty on a
\* never-written root, n + 1 after n successful pushes made one after another.
C14_Timestamp ==
  /\ \A lp \in PullStarts :
       /\ ~PullNow(lp).threw
       /\ PullNow(lp).timestamp = base.melonLatestRevision + 1
  /\ base.melonLatestRevision = 0 => \A lp \in PullStarts : PullNow(lp) = EmptyPull(1)
  /\ ~overlap => PullNow(Null).timestamp = Successes + 1

\* three pushes made one after another have succeeded
C14_Witness ==
  /\ ~overlap
  /\ Successes = MaxPushes
  /\ PullNow(Null).timestamp = MaxPushes + 1
  /\ PullNow(MaxPushes).timestamp = MaxPushes + 1

\* the table documents of location l stamped with revision r
DocsAt(l, r) ==
  {<<t, k>> \in Tables \X Keys :
     docs[l][t][k] # NoDoc /\ docs[l][t][k].melonFireRevision = r}

\* C15: in every reachable state, for every committed revision R either
\* melonBatchTokens[R] exists, a side-batch document of revision R is under
\* it and no table document or melonDeletes record of R is under the root, or
\* melonBatchTokens[R] does not exist and no integrated side-batch holds
\* anything of R; never both.
C15_Exclusive ==
  \A r \in 1..base.melonLatestRevision :
    IF HasToken(base.melonBatchTokens, r)
      THEN /\ batchDocs[base.melonBatchTokens[r]] # NoDoc
           /\ batchDocs[base.melonBatchTokens[r]].melonLatestRevision = r
           /\ DocsAt(BASE, r) = {}
           /\ \A j \in 1..Len(delRecs) : delRecs[j].revision # r
      ELSE \A k \in Tokens :
             Linked(k) => /\ DocsAt(k, r) = {}
                          /\ batchDocs[k].melonLatestRevision # r

\* C16: when a push that deletes id x of table t has succeeded, no copy of x
\* that findDeleteRefs discovered is left: no document for x is under root/t
\* or under t of an integrated side-batch, and a pull from null reports x in
\* deleted and in no row of updated.
C16_DeletedEverywhere ==
  [][\A c \in Clients, t \in Tables :
       Commits(c) =>
         \A x \in DiscoveredIds(cl[c].changes, cl[c].delRefs, t) :
           /\ docs'[BASE][t][encodeURIComponent(x)] = NoDoc
           /\ \A k \in Tokens :
                (\E r \in Revisions : base'.melonBatchTokens[r] = k)
                  => docs'[k][t][encodeURIComponent(x)] = NoDoc
           /\ LET res == pullChanges(base', docs', batchDocs', delRecs', Tables, Null)
              IN  /\ ~res.threw
                  /\ x \in res.changes[t].deleted
                  /\ \A row \in res.changes[t].updated : row.id # x]_vars

\* C17: syncMelonFire runs sync() at most twice; the second run is made if
\* and only if the first throws; when the first returns no second is made;
\* when the second throws, its error leaves syncMelonFire and no third is made.
C17_RetryOnce ==
  /\ [](/\ sy.attempt <= 2
        /\ sy.attempt = 2 <=> Len(sy.thrown) >= 1
        /\ sy.result = "ok" => Len(sy.thrown) = sy.attempt - 1
        /\ sy.result \notin {"none", "ok"}
             => /\ sy.pc = "idle"
                /\ sy.attempt = 2
                /\ Len(sy.thrown) = 2
                /\ sy.result = sy.thrown[2])
  /\ [][/\ AttemptReturned
             => sy'.pc = "idle" /\ sy'.result = "ok" /\ sy'.attempt = sy.attempt
        /\ (AttemptThrew /\ sy.attempt = 1)
             => sy'.pc = "pull" /\ sy'.attempt = 2 /\ sy'.result = "none"
        /\ (AttemptThrew /\ sy.attempt = 2)
             => sy'.pc = "idle" /\ sy'.attempt = 2 /\ sy'.result = AttemptError]_vars

\* a first sync() threw in its push, the second one has just thrown too
C17_Witness ==
  /\ sy.pc = "idle"
  /\ sy.attempt = 2
  /\ Len(sy.thrown) = 2
  /\ sy.thrown[1] # "pullError"
  /\ sy.result = sy.thrown[2]

\* the rows a changeset writes, the ids it deletes and the references
\* findDeleteRefs discovered, over all tables
WriteCount(changes) ==
  SumSeq([i \in 1..Len(TableSeq) |->
           Len(changes[TableSeq[i]].created) + Len(changes[TableSeq[i]].updated)])
DeletedCount(changes) ==
  SumSeq([i \in 1..Len(TableSeq) |-> Len(changes[TableSeq[i]].deleted)])
RefCount(delRefs) ==
  SumSeq([i \in 1..Len(TableSeq) |-> Len(delRefs[TableSeq[i]])])

\* C18: pushChanges takes the inline path if and only if
\* C + (D > 0 ? D + 1 : 0) + 1 <= W, C the created and updated rows and D the
\* discovered delete references; otherwise the side-batch path.
C18_PathChoice ==
  [][\A c \in Clients :
       (cl[c].pc = "findBatch" /\ cl'[c].pc # cl[c].pc /\ cl'[c].pc # "findBase")
         => LET C == WriteCount(cl[c].changes)
                D == RefCount(cl'[c].delRefs)
                fits == C + (IF D > 0 THEN D + 1 ELSE 0) + 1 <= MAX_TRANSACTION_WRITES
            IN  /\ fits => cl'[c].pc = "inline" /\ cl'[c].path = "inline"
                /\ ~fits => cl'[c].pc = "batch" /\ cl'[c].path = "batch"]_vars

\* a call that deletes one id, of which a root copy and a side-batch copy
\* were discovered, has an effective count of W and has taken the side-batch
\* path
C18_Witness ==
  \E c \in Clients :
    /\ cl[c].pc = "batch"
    /\ WriteCount(cl[c].changes) = 0
    /\ DeletedCount(cl[c].changes) = 1
    /\ RefCount(cl[c].delRefs) = 2
    /\ countChanges(cl[c].changes, RefCount(cl[c].delRefs)) = MAX_TRANSACTION_WRITES

\* C19: when a side-batch push made after the calls before it had returned
\* succeeds at revision R, one new document is under root/melonBatches, its
\* melonLatestRevision is R, every created and updated row is stored under
\* it stamped melonFireRevision = R, melonBatchTokens maps R to it, and a
\* pull from null returns all those rows in updated.
C19_BatchPushed ==
  [][\A c \in Clients :
       (Commits(c) /\ cl[c].path = "batch" /\ ~overlap)
         => LET R == cl[c].lastPulledAt
                k == cl[c].batchDoc
                res == pullChanges(base', docs', batchDocs', delRecs', Tables, Null)
            IN  /\ {j \in Tokens : batchDocs'[j] # batchDocs[j]} = {k}
                /\ batchDocs[k] = NoDoc
                /\ batchDocs'[k].melonLatestRevision = R
                /\ base'.melonLatestRevision = R
                /\ base'.melonBatchTokens[R] = k
                /\ \A t \in Tables :
                     \A row \in WrittenRows(cl[c].changes, t) :
                       /\ docs'[k][t][encodeURIComponent(row.id)]
                            = StoredRecord(row, R)
                       /\ ~res.threw
                       /\ row \in res.changes[t].updated]_vars

\* C20: for rows of any id, ids with / and ids with % included, a pull from
\* the revision a push committed returns the rows the push wrote, each with
\* its id, and as many rows as the push wrote.
C20_IdFidelity ==
  [][\A c \in Clients, t \in Tables :
       Commits(c)
         => LET res == pullChanges(base', docs', batchDocs', delRecs', Tables,
                                   cl[c].lastPulledAt)
            IN  /\ ~res.threw
                /\ res.changes[t].updated = WrittenRows(cl[c].changes, t)]_vars

\* nothing is stored under any side-batch handle
NothingStaged == \A k \in Tokens : docs[k] = EmptyTables

\* the stored table documents of row id i of table t, wherever they are
DocsOfRow(d, t, i) ==
  {<<l, k>> \in Locs \X Keys : d[l][t][k] # NoDoc /\ d[l][t][k].id = i}

\* C21: while every push took the inline path, at most one document is
\* stored for any (table, row id): a step of a call that is not on the
\* side-batch path stores no document under a side-batch handle, and while
\* nothing is under a side-batch handle every row id has at most one
\* document.
C21_OneDocPerRow ==
  /\ [](NothingStaged =>
          \A t \in Tables, i \in Ids : Cardinality(DocsOfRow(docs, t, i)) <= 1)
  /\ [][\A c \in Clients :
          (cl'[c] # cl[c] /\ cl[c].path # "batch")
            => \A k \in Tokens, t \in Tables, key \in Keys :
                 docs'[k][t][key] \in {docs[k][t][key], NoDoc}]_vars

\* three inline pushes have committed, the last one over rows that were
\* stored before, and each row has its one document
C21_Witness ==
  /\ NothingStaged /\ NoBatchDocs
  /\ Successes = 3
  /\ \A c \in Clients : cl[c].path = "inline"
  /\ \A t \in Tables, i \in Ids :
       /\ Cardinality(DocsOfRow(docs, t, i)) = 1
       /\ docs[BASE][t][encodeURIComponent(i)].melonFireRevision = 3
       /\ latest[t][i].kind = "written"

\* the rows of id i of table t stored at revision r: the root copy stamped
\* r and the copy under the side-batch that melonBatchTokens names for r
RowsAt(t, i, r) ==
  LET key == encodeURIComponent(i)
      inRoot == IF docs[BASE][t][key] # NoDoc
                     /\ docs[BASE][t][key].melonFireRevision = r
                  THEN {removeMelonFields(docs[BASE][t][key])} ELSE {}
      k == base.melonBatchTokens[r]
      inBatch == IF k # NoToken /\ docs[k][t][key] # NoDoc
                      /\ docs[k][t][key].melonFireRevision = r
                   THEN {removeMelonFields(docs[k][t][key])} ELSE {}
  IN  inRoot \cup inBatch

\* the revisions of the range of a pull from lastPulledAt at which id i of
\* table t has a stored row
RevisionsOf(t, i, lastPulledAt) ==
  {r \in StartRevision(lastPulledAt)..(NextRevision - 1) : RowsAt(t, i, r) # {}}

Highest(S) == CHOOSE r \in S : \A q \in S : q <= r

ApplyPulled(local, changes) ==
  [t \in Tables |->
    {r \in local[t] :
       /\ r.id \notin changes[t].deleted
       /\ \A u \in changes[t].updated : u.id # r.id}
      \cup changes[t].updated]

NoLocalRows == [t \in Tables |-> {}]

\* the reader pulled from null at some point between the pushes and then,
\* after all pushes, from the timestamp of that pull; all pushes succeeded
PulledInTwoSteps ==
  /\ pl.n = 2
  /\ pl.prev.lastPulledAt = Null
  /\ ~pl.prev.result.threw
  /\ ~pl.result.threw
  /\ pl.lastPulledAt = pl.prev.result.timestamp
  /\ pl.n0 = nPush
  /\ Quiet
  /\ nPush = Successes

\* C23: after successful pushes made one after another, applying the result
\* of a pull from null taken between them and then the result of a pull from
\* that pull's timestamp taken at the end leaves the rows a single pull from
\* null at the end leaves.
C23_IncrementalIsFull ==
  PulledInTwoSteps
    => /\ ~PullNow(Null).threw
       /\ ApplyPulled(ApplyPulled(NoLocalRows, pl.prev.result.changes),
                      pl.result.changes)
            = ApplyPulled(NoLocalRows, PullNow(Null).changes)

\* C24: the transaction of a call that the planner sent to the inline path
\* queues at most W writes: the row sets, the deletes of the discovered
\* references, the delete record and the root update.
C24_InlineBudget ==
  \A c \in Clients :
    cl[c].pc = "inline"
      => TransactionWrites(cl[c].changes, cl[c].delRefs, NextRevision)
           <= MAX_TRANSACTION_WRITES

\* an inline call whose transaction queues exactly W writes, a delete and
\* the delete record among them, and another one with W - 1 row sets
C24_Witness ==
  \E c, o \in Clients :
    /\ cl[c].pc = "inline"
    /\ RefCount(cl[c].delRefs) > 0
    /\ TransactionWrites(cl[c].changes, cl[c].delRefs, NextRevision)
         = MAX_TRANSACTION_WRITES
    /\ cl[o].pc = "inline"
    /\ WriteCount(cl[o].changes) = MAX_TRANSACTION_WRITES - 1
    /\ TransactionWrites(cl[o].changes, cl[o].delRefs, NextRevision)
         = MAX_TRANSACTION_WRITES

\* how many times operation op has been committed: its places in the write
\* batches whose commit has completed
OpCommits(w, op) ==
  Cardinality({<<h, j>> \in (1..Len(w.handles)) \X (1..MaxRefs) :
                 /\ j <= Len(w.handles[h].ops)
                 /\ w.handles[h].ops[j] = op
                 /\ w.handles[h].state = "committed"})

\* no write batch holds more than W operations
BatchesWithinLimit(w) ==
  \A h \in 1..Len(w.handles) : Len(w.handles[h].ops) <= MAX_TRANSACTION_WRITES

\* C25: for a writer that got only created/updated calls, no batch holds
\* more than W operations; whenever a call has returned the counter is the
\* number of operations queued on the current, uncommitted batch and is
\* below W; and after flush every write has been committed exactly once.
C25_WritesCommittedOnce ==
  bw.deletedCalls = 0
    => /\ BatchesWithinLimit(bw)
       /\ bw.pc \in {"ready", "flushed"}
            => /\ bw.handles[bw.batch].state = "open"
               /\ bw.count = Len(bw.handles[bw.batch].ops)
               /\ bw.count < MAX_TRANSACTION_WRITES
       /\ bw.pc = "flushed"
            => \A op \in 1..bw.nOps : OpCommits(bw, op) = 1

\* W + 1 writes and the flush: a full batch was committed by the W-th write
\* and the last write by the flush
C25_Witness ==
  /\ bw.deletedCalls = 0
  /\ bw.pc = "flushed"
  /\ bw.nOps = MAX_TRANSACTION_WRITES + 1
  /\ Len(bw.handles) = 3
  /\ Len(bw.handles[1].ops) = MAX_TRANSACTION_WRITES
  /\ Len(bw.handles[2].ops) = 1
  /\ \A op \in 1..bw.nOps : OpCommits(bw, op) = 1

\* C26: deleted, with any number of refs and any counter value, queues
\* every ref, and the calls and the flush after it complete whenever the
\* store accepts the commits: no call is refused by a write batch; no batch
\* holds more than W operations and the counter never exceeds W; after the
\* flush every operation has been committed exactly once.
C26_DeletedCarries ==
  /\ bw.error # "batchCommitted"
  /\ BatchesWithinLimit(bw)
  /\ bw.count <= MAX_TRANSACTION_WRITES
  /\ bw.pc = "flushed" => \A op \in 1..bw.nOps : OpCommits(bw, op) = 1

\* C27: when a call of the writer has returned, no commit is in flight and
\* this.batch is a fresh handle on which commit has not been called, so no
\* operation is queued onto a handle after its commit has started; no
\* handle is committed twice; flush is called once, and after it every
\* handle that holds operations has been committed.
C27_HandleDiscipline ==
  /\ bw.pc = "ready"
       => bw.pending = 0 /\ bw.handles[bw.batch].state = "open"
  /\ bw.error # "batchCommitted"
  /\ bw.unhandled = 0
  /\ bw.flushes <= 1
  /\ bw.pc = "flushed"
       => /\ bw.flushes = 1
          /\ \A h \in 1..Len(bw.handles) :
               bw.handles[h].ops # <<>> => bw.handles[h].state = "committed"

\* the documents staged under a side-batch handle
StagedDocs(d, batchDoc) ==
  {<<t, k>> \in Tables \X Keys : d[batchDoc][t][k] # NoDoc}

\* C28: the rollback of a failed integrate deletes the staged documents in
\* chunks: every delete batch it commits holds at most W delete operations,
\* and its delete batches together hold one delete for every staged document.
C28_RollbackChunks ==
  [][\A c \in Clients :
       (cl[c].pc = "rollback" /\ cl'[c].pc = "idle")
         => LET r == RollbackBlocks(docs, RollbackRefs(docs, cl[c].batchDoc), 0)
            IN  /\ \A j \in 1..Len(r.batches) :
                     Len(r.batches[j]) <= MAX_TRANSACTION_WRITES
                /\ SumSeq([j \in 1..Len(r.batches) |-> Len(r.batches[j])])
                     = Cardinality(StagedDocs(docs, cl[c].batchDoc))]_vars

\* the step with which the catch block of the call of client c ends
RolledBack(c) == cl[c].pc = "rollback" /\ cl'[c].pc = "idle"

StagesNamed(err) ==
  CASE err = "rollbackError" -> {"rollback"}
    [] err \in {"storeError", "outOfSync"} -> {"integrate"}
    [] OTHER -> {}

\* C30: when the integrate transaction has failed and the rollback fails
\* too, the error pushChanges throws names both stages: the integrate
\* failure and the rollback failure.
C30_CompositeError ==
  [][\A c \in Clients :
       (/\ RolledBack(c)
        /\ RollbackBlocks(docs, RollbackRefs(docs, cl[c].batchDoc), 0).threw)
         => StagesNamed(cl'[c].result) = {"integrate", "rollback"}]_vars

\* C31: when a commit of the stage phase fails, the call ends at once with
\* that error: no further stage call, no integrate transaction and no
\* rollback follow, the root, the side-batch documents and the delete
\* records are as before, and no token names the handle of the call then or
\* later.
C31_StageFailure ==
  /\ [][\A c \in Clients :
          (cl[c].pc \in {"stage", "flush"} /\ cl'[c].result = "stageError")
            => /\ cl'[c].pc = "idle"
               /\ base' = base /\ batchDocs' = batchDocs /\ delRecs' = delRecs
               /\ commits' = commits]_vars
  /\ [](\A c \in Clients :
          cl[c].result = "stageError"
            => /\ ~Linked(cl[c].batchDoc)
               /\ batchDocs[cl[c].batchDoc] = NoDoc)

\* a side-batch push committed a full batch in its stage loop and then the
\* commit of its flush failed: the documents it staged are under a handle no
\* token names
C31_Witness ==
  \E c \in Clients :
    /\ cl[c].pc = "idle" /\ cl[c].result = "stageError"
    /\ docs[cl[c].batchDoc] # EmptyTables
    /\ ~Linked(cl[c].batchDoc)
    /\ base.melonLatestRevision >= 1

\* C32: a step never removes or changes an entry of melonBatchTokens, and
\* the transaction of an inline push changes nothing of the root but
\* melonLatestRevision.
C32_TokensForever ==
  [][/\ \A r \in Revisions :
          HasToken(base.melonBatchTokens, r)
            => base'.melonBatchTokens[r] = base.melonBatchTokens[r]
     /\ \A c \in Clients :
          (cl[c].pc = "inline" /\ cl'[c].pc = "idle")
            => base'.melonBatchTokens = base.melonBatchTokens]_vars

\* the call of writer c was made with the timestamp of the last pull, and no
\* push was made between that pull and the call
PushedAfterPull(c) ==
  /\ Running(c)
  /\ pl.result # NoResult
  /\ ~pl.result.threw
  /\ pl.n0 = cl[c].no - 1
  /\ cl[c].lastPulledAt = pl.result.timestamp

\* C33: a push made with the timestamp t of the last pull, no push having
\* committed in between, is never refused as out of sync on either path, and
\* when it commits the root's revision becomes t; the pull made after that
\* commit returns the timestamp t + 1.
C33_PushAfterPull ==
  [][/\ \A c \in Writers :
          PushedAfterPull(c)
            => /\ cl'[c].result # "outOfSync"
               /\ Commits(c) => base'.melonLatestRevision = pl.result.timestamp
     /\ (/\ pl'.n = pl.n + 1
         /\ pl.result # NoResult
         /\ ~pl.result.threw
         /\ base.melonLatestRevision = pl.result.timestamp)
          => /\ ~pl'.result.threw
             /\ pl'.result.timestamp = pl.result.timestamp + 1]_vars

\* a side-batch push with the timestamp 2 of a pull has committed, and the
\* pull after it has returned 3
C33_Witness ==
  /\ pl.result # NoResult /\ ~pl.result.threw
  /\ pl.prev.result # NoResult /\ ~pl.prev.result.threw
  /\ pl.prev.result.timestamp = 2
  /\ pl.result.timestamp = 3
  /\ pl.n0 = nPush
  /\ commits[2] = 1
  /\ HasToken(base.melonBatchTokens, 2)
  /\ \E c \in Writers : cl[c].pc = "idle" /\ cl[c].result = "ok" /\ cl[c].path = "batch"

Internals == {"_status", "_changed", "melonFireChange"}

DeleteRecordOf(delRefs, revision) ==
  [revision |-> revision,
   deletes |-> [t \in Tables |->
                 [j \in 1..Len(delRefs[t]) |-> delRefs[t][j].ref.key]]]

\* C35: the commit of an inline push at revision R appends exactly one delete
\* record, with revision R and the encoded ids of the discovered references,
\* when a reference was discovered and none otherwise; no other step adds a
\* record, and no step changes or removes one.
C35_DeleteRecords ==
  [][/\ \A c \in Clients :
          (cl[c].pc = "inline" /\ Commits(c))
            => IF \E t \in Tables : cl[c].delRefs[t] # <<>>
                 THEN delRecs' = Append(delRecs,
                        DeleteRecordOf(cl[c].delRefs, base'.melonLatestRevision))
                 ELSE delRecs' = delRecs
     /\ (\A c \in Clients : ~(cl[c].pc = "inline" /\ Commits(c)))
          => delRecs' = delRecs
     /\ Len(delRecs') >= Len(delRecs)
     /\ \A j \in 1..Len(delRecs) : delRecs'[j] = delRecs[j]]_vars

\* an inline push at revision 2 left a delete record, and a side-batch push
\* was integrated after it
C35_Witness ==
  /\ Len(delRecs) = 1
  /\ delRecs[1].revision = 2
  /\ \E t \in Tables : delRecs[1].deletes[t] # <<>>
  /\ HasToken(base.melonBatchTokens, 3)
  /\ base.melonLatestRevision = 3

\* the rows of the created and updated lists of a changeset, one element each
WrittenEntries(changes) ==
  {e \in Tables \X {"created", "updated"} \X (1..Len(AllIdSeq)) :
     e[3] <= Len(changes[e[1]][e[2]])}

WithoutDeleted(changes) == [t \in Tables |-> [changes[t] EXCEPT !.deleted = <<>>]]

\* C36: for the changeset of every call and every deleteCount, countChanges
\* is the number of created and updated rows, plus deleteCount + 1 when
\* deleteCount > 0; the deleted lists of the changeset do not count.
C36_CountChanges ==
  \A c \in Clients :
    Running(c)
      => \A deleteCount \in 0..MaxRefs :
           /\ countChanges(cl[c].changes, deleteCount)
                = Cardinality(WrittenEntries(cl[c].changes))
                    + (IF deleteCount = 0 THEN 0 ELSE deleteCount + 1)
           /\ countChanges(cl[c].changes, deleteCount)
                = countChanges(WithoutDeleted(cl[c].changes), deleteCount)

\* a call with one created row and one deleted id that has two stored copies:
\* countChanges is 1 + (2 + 1)
C36_Witness ==
  \E c \in Clients, t \in Tables :
    /\ cl[c].pc \in {"inline", "batch"}
    /\ Len(cl[c].changes[t].created) = 1
    /\ Len(cl[c].changes[t].deleted) = 1
    /\ RefCount(cl[c].delRefs) = 2
    /\ countChanges(cl[c].changes, RefCount(cl[c].delRefs)) = 4

\* C37: every table document under the root has a melonFireRevision from 1
\* to melonLatestRevision, every table document of the side-batch linked by
\* melonBatchTokens[R] has melonFireRevision R, and a document that carries
\* melonLatestRevision + 1 is in a side-batch that is not linked.
C37_RevisionRanges ==
  /\ \A t \in Tables, k \in Keys :
       docs[BASE][t][k] # NoDoc
         => /\ docs[BASE][t][k].melonFireRevision >= MIN_REVISION
            /\ docs[BASE][t][k].melonFireRevision <= base.melonLatestRevision
  /\ \A r \in Revisions :
       HasToken(base.melonBatchTokens, r)
         => \A t \in Tables, k \in Keys :
              docs[base.melonBatchTokens[r]][t][k] # NoDoc
                => docs[base.melonBatchTokens[r]][t][k].melonFireRevision = r
  /\ \A l \in Locs, t \in Tables, k \in Keys :
       (/\ docs[l][t][k] # NoDoc
        /\ docs[l][t][k].melonFireRevision = base.melonLatestRevision + 1)
         => l # BASE /\ ~Linked(l)

\* what pullChanges returns when the walk runs no iteration
EmptyPullAt(endRevision) ==
  [threw |-> FALSE,
   changes |-> [t \in Tables |-> [created |-> {}, updated |-> {}, deleted |-> {}]],
   timestamp |-> endRevision]

\* C38: a pullChanges call returns in the end.  Every completed turn of the
\* walk moves start forward by at least 1 and not past endRevision, with and
\* without batch tokens and over consecutive side-batches; a call whose
\* lastPulledAt is at or past endRevision runs no turn and returns empty lists.
C38_PullTerminates ==
  /\ [][(pl' # pl)
          => /\ (pl.pc = "deletes" /\ ~pl'.w.threw)
                  => /\ pl'.start >= pl.start + 1
                     /\ pl'.start <= pl.endRevision
             /\ (pl.pc = "root" /\ pl.lastPulledAt >= revisionFromBaseSnap(base)[1])
                  => pl'.pc = "return"
             /\ (pl.pc = "return" /\ pl.lastPulledAt >= pl.endRevision)
                  => pl'.result = EmptyPullAt(pl.endRevision)]_vars
  /\ [](\A lastPulledAt \in (NextRevision + 1)..(MaxPushes + 2) :
          PullNow(lastPulledAt) = EmptyPullAt(NextRevision))
  /\ (pl.pc # "idle") ~> (pl.pc = "idle")

\* a pull from null has walked the side-batches of revisions 1 and 2, one
\* after the other, and returned
C38_Witness ==
  /\ pl.pc = "idle" /\ pl.result # NoResult /\ ~pl.result.threw
  /\ pl.lastPulledAt = Null
  /\ HasToken(pl.batchTokens, 1) /\ HasToken(pl.batchTokens, 2)
  /\ pl.endRevision = 3 /\ pl.start = 3
  /\ \E t \in Tables : pl.result.changes[t].updated # {}

\* C39: no step of a pullChanges call changes the root document, a table
\* document, a side-batch document or a delete record.
C39_PullReadsOnly ==
  [][(pl' # pl)
       => /\ base' = base
          /\ docs' = docs
          /\ batchDocs' = batchDocs
          /\ delRecs' = delRecs]_vars

\* a pull has returned rows and deletions of a store that holds a side-batch
\* and a delete record
C39_Witness ==
  /\ pl.pc = "idle" /\ pl.result # NoResult /\ ~pl.result.threw
  /\ \E t \in Tables : pl.result.changes[t].updated # {}
  /\ \E t \in Tables : pl.result.changes[t].deleted # {}
  /\ \E r \in Revisions : HasToken(base.melonBatchTokens, r)

====
